---- MODULE Spec2Model ----
(***************************************************************************)
(* Healthmate-CoachAI: request entry validation, the producer task         *)
(* (invoke_health_coach), the tool proxy and the streaming event           *)
(* multiplexers (poll loop of agent/healthmate_coach_ai/agent.py and the   *)
(* asyncio.wait loop of the legacy entry points).                          *)
(*                                                                         *)
(*   Spec            one request through the poll-loop entry point         *)
(*   SpecLegacy      one accepted request through the asyncio.wait loop    *)
(*   SpecConcurrent  several requests sharing the module globals           *)
(*   SpecFunctions   identity extraction, gateway classification, event    *)
(*                   translation and the tools applied to enumerated       *)
(*                   inputs                                                *)
(*   SpecAccepted    an accepted request through the poll loop, with weak  *)
(*                   fairness of the steps of invoke                       *)
(*   SpecLegacyConcurrent  several requests to healthmate_coach_ai invoke  *)
(*   SpecOlderConcurrent   several requests to health_coach_ai invoke      *)
(***************************************************************************)
EXTENDS Integers, Sequences, FiniteSets, TLC

\* ------------------------------------------------------------------------
\* Bounds of the model
\* ------------------------------------------------------------------------
\* raw generation events the model runtime emits per request
MaxEvents == 2
\* poll timeouts counted while the producer is still running
MaxTimeouts == 1
\* tool invocations the model runtime makes per request
MaxToolCalls == 1
\* good (cursor-carrying) pages a gateway scenario serves before its last page
MaxGoodPages == 1
\* requests one process serves at the same time
MaxRequests == 2

\* ------------------------------------------------------------------------
\* Program constants
\* ------------------------------------------------------------------------
MinSessionLen == 33
MaxPages == 10

None == "None"
Absent == "absent"

\* ------------------------------------------------------------------------
\* Bearer tokens.  A token string is modelled by its '.'-split segments
\* (Python "".split('.') = [""], so the empty token is <<"">>).
\* ------------------------------------------------------------------------
EmptyToken == <<"">>

\* the value of _current_jwt_token before any request set it (None)
NoToken == <<>>

\* middle segments (base64url, unpadded) used by the model and what they hold
SegSubU1 == "eyJzdWIiOiJ1MSJ9"
SegSubU2 == "eyJzdWIiOiJ1MiJ9"
SegUsernameOnly == "eyJ1c2VybmFtZSI6ImJvYiJ9"
SegEmptySub == "eyJzdWIiOiIifQ"
SegJsonList == "W10"
SegNotJson == "bm90anNvbg"
SegUsernameEmail == "eyJ1c2VybmFtZSI6ImJvYiIsImVtYWlsIjoiZSJ9"
SegEmailUserId == "eyJlbWFpbCI6ImUiLCJ1c2VyX2lkIjoiaSJ9"
SegUserIdOnly == "eyJ1c2VyX2lkIjoiaSJ9"
SegEmptyObject == "e30"
SegSubAndUsername == "eyJzdWIiOiJ1MSIsInVzZXJuYW1lIjoiYm9iIn0"
SegEmptySubUsername == "eyJzdWIiOiIiLCJ1c2VybmFtZSI6ImJvYiJ9"
SegJsonNull == "bnVsbA"
\* not base64 (one data character), bytes that are not UTF-8, no bytes at all
SegBadBase64 == "a"
SegBadUtf8 == "gICA"
SegEmpty == ""

Tokens ==
  { <<"h", SegSubU1, "s">>,
    <<"h", SegUsernameOnly, "s">>,
    <<"h", SegEmptySub, "s">>,
    <<"h", SegJsonList, "s">>,
    <<"h", SegNotJson, "s">>,
    <<"a", "b">>,
    EmptyToken }

\* a decoded JSON object (isobj) with the four identity claims, or a JSON
\* value that is not an object (isobj = FALSE)
Claims(sub, username, email, user_id) ==
  [isobj |-> TRUE, sub |-> sub, username |-> username, email |-> email, user_id |-> user_id]

EmptyClaims == Claims(Absent, Absent, Absent, Absent)

NonObject == [isobj |-> FALSE, sub |-> Absent, username |-> Absent, email |-> Absent, user_id |-> Absent]

\* base64.urlsafe_b64decode + json.loads of a middle segment:
\* [ok |-> FALSE] when either step raises, else the JSON value
B64JsonLoads(seg) ==
  CASE seg = SegSubU1 -> [ok |-> TRUE, value |-> Claims("u1", Absent, Absent, Absent)]
    [] seg = SegSubU2 -> [ok |-> TRUE, value |-> Claims("u2", Absent, Absent, Absent)]
    [] seg = SegUsernameOnly -> [ok |-> TRUE, value |-> Claims(Absent, "bob", Absent, Absent)]
    [] seg = SegEmptySub -> [ok |-> TRUE, value |-> Claims("", Absent, Absent, Absent)]
    [] seg = SegJsonList -> [ok |-> TRUE, value |-> NonObject]
    [] seg = SegJsonNull -> [ok |-> TRUE, value |-> NonObject]
    [] seg = SegUsernameEmail -> [ok |-> TRUE, value |-> Claims(Absent, "bob", "e", Absent)]
    [] seg = SegEmailUserId -> [ok |-> TRUE, value |-> Claims(Absent, Absent, "e", "i")]
    [] seg = SegUserIdOnly -> [ok |-> TRUE, value |-> Claims(Absent, Absent, Absent, "i")]
    [] seg = SegEmptyObject -> [ok |-> TRUE, value |-> EmptyClaims]
    [] seg = SegSubAndUsername -> [ok |-> TRUE, value |-> Claims("u1", "bob", Absent, Absent)]
    [] seg = SegEmptySubUsername -> [ok |-> TRUE, value |-> Claims("", "bob", Absent, Absent)]
    [] OTHER -> [ok |-> FALSE, value |-> EmptyClaims]

\* a decode that takes the second segment without counting the segments
decode_jwt_payload_nocount(tok) ==
  IF Len(tok) < 2 THEN EmptyClaims
  ELSE LET r == B64JsonLoads(tok[2])
       IN IF r.ok THEN r.value ELSE EmptyClaims

\* _decode_jwt_payload: never raises, {} on a segment count # 3 or on any
\* decode/parse exception, else whatever json.loads returned
decode_jwt_payload(tok) ==
  IF Len(tok) # 3 THEN EmptyClaims
  ELSE LET r == B64JsonLoads(tok[2])
       IN IF r.ok THEN r.value ELSE EmptyClaims

\* Python truthiness of a claim value
Truthy(v) == v # Absent /\ v # "" /\ v # None

\* _get_user_info: user_id is payload.get('sub') of the process-wide token;
\* payload.get raises AttributeError when the payload is not a JSON object
get_user_info(jwt, tz, lang) ==
  LET payload == IF jwt # NoToken /\ jwt # EmptyToken THEN decode_jwt_payload(jwt) ELSE EmptyClaims
  IN [raised |-> ~payload.isobj,
      user_id |-> IF payload.isobj /\ payload.sub # Absent THEN payload.sub ELSE None,
      timezone |-> IF Truthy(tz) THEN tz ELSE "Asia/Tokyo",
      language |-> IF Truthy(lang) THEN lang ELSE "ja"]

\* ------------------------------------------------------------------------
\* Tool proxy
\* ------------------------------------------------------------------------
\* marker texts of the exceptions raised by the gateway call path
E_M2M_TOKEN == "E_M2M_TOKEN"
E_GW_AUTH == "E_GW_AUTH_401"
E_GW_AUTHZ == "E_GW_AUTHZ_403"
E_GW_NOT_FOUND == "E_GW_NOT_FOUND_404"
E_GW_SERVER == "E_GW_SERVER_5XX"
E_GW_HTTP == "E_GW_HTTP_OTHER"
E_GW_PROTOCOL == "E_MCP_PROTOCOL"
E_TRANSPORT == "E_TRANSPORT"

\* what the gateway does with one JSON-RPC call:
\*   token     the M2M decorator supplied an access token
\*   transport the POST returned a response (FALSE: httpx raised)
\*   status    HTTP status code
\*   error     the JSON body carries an 'error' field
\*   result    the body's 'result' value
Response(token, transport, status, error, result) ==
  [token |-> token, transport |-> transport, status |-> status, error |-> error, result |-> result]

\* the 'result' values of tools/call
NullResult == [kind |-> "null", tools |-> <<>>, hasTools |-> FALSE, cursor |-> 0]

CallResult(kind) == [kind |-> kind, tools |-> <<>>, hasTools |-> FALSE, cursor |-> 0]

\* a tools/list page: its tool descriptors and its nextCursor
\* (cursor 0: nextCursor absent, null or empty; n > 0: the cursor naming page n)
PageResult(hasTools, tools, cursor) ==
  [kind |-> "page", tools |-> tools, hasTools |-> hasTools, cursor |-> cursor]

\* "plain_str": a string without the substring 'content';
\* "str_with_content": a string that has it; "number": a non-zero JSON number
CallResultKinds ==
  {"null", "empty_dict", "plain_str", "content_text", "content_first_no_text",
   "content_empty_list", "content_not_list", "no_content", "str_with_content", "number"}

\* `'content' in result` / `result['content']` raise TypeError on these
E_TYPE == "E_TYPE_ERROR"

ResultTypeError(r) == r.kind \in {"str_with_content", "number"}

FailureStatuses == {401, 403, 404, 500, 503, 302, 418}

\* every way a gateway call can fail
FailureResponses ==
  { Response(FALSE, TRUE, 200, FALSE, NullResult),
    Response(TRUE, FALSE, 200, FALSE, NullResult),
    Response(TRUE, TRUE, 200, TRUE, NullResult) }
  \cup { Response(TRUE, TRUE, st, FALSE, NullResult) : st \in FailureStatuses }

OkCallResponses == { Response(TRUE, TRUE, 200, FALSE, CallResult(k)) : k \in CallResultKinds }

\* a classification without the branch for status >= 500
call_mcp_gateway_with_m2m_no5xx(g) ==
  LET Raise(msg, sent, code) ==
        [raised |-> TRUE, msg |-> msg, result |-> NullResult, sent |-> sent, http_status |-> code]
  IN IF ~g.token THEN Raise(E_M2M_TOKEN, FALSE, 0)
     ELSE IF ~g.transport THEN Raise(E_TRANSPORT, TRUE, 0)
     ELSE IF g.status = 401 THEN Raise(E_GW_AUTH, TRUE, 0)
     ELSE IF g.status = 403 THEN Raise(E_GW_AUTHZ, TRUE, 0)
     ELSE IF g.status = 404 THEN Raise(E_GW_NOT_FOUND, TRUE, 0)
     ELSE IF g.status # 200 THEN Raise(E_GW_HTTP, TRUE, g.status)
     ELSE IF g.error THEN Raise(E_GW_PROTOCOL, TRUE, 0)
     ELSE [raised |-> FALSE, msg |-> "", result |-> g.result, sent |-> TRUE, http_status |-> 0]

\* get_mcp_client_from_gateway + _call_mcp_gateway: the exception raised
\* (the generic HTTP error carries the status code) or the 'result' returned,
\* and whether a request went out to the gateway
call_mcp_gateway_with_m2m(g) ==
  LET Raise(msg, sent, code) ==
        [raised |-> TRUE, msg |-> msg, result |-> NullResult, sent |-> sent, http_status |-> code]
  IN IF ~g.token THEN Raise(E_M2M_TOKEN, FALSE, 0)
     ELSE IF ~g.transport THEN Raise(E_TRANSPORT, TRUE, 0)
     ELSE IF g.status = 401 THEN Raise(E_GW_AUTH, TRUE, 0)
     ELSE IF g.status = 403 THEN Raise(E_GW_AUTHZ, TRUE, 0)
     ELSE IF g.status = 404 THEN Raise(E_GW_NOT_FOUND, TRUE, 0)
     ELSE IF g.status >= 500 THEN Raise(E_GW_SERVER, TRUE, 0)
     ELSE IF g.status # 200 THEN Raise(E_GW_HTTP, TRUE, g.status)
     ELSE IF g.error THEN Raise(E_GW_PROTOCOL, TRUE, 0)
     ELSE [raised |-> FALSE, msg |-> "", result |-> g.result, sent |-> TRUE, http_status |-> 0]

\* Python falsiness of a 'result' value (None, {}, "")
FalsyResult(r) == r.kind \in {"null", "empty_dict"}

\* what a tool hands back to the model runtime: raised = an exception left
\* the tool function, else the returned string (kind + detail)
\* calls = the cursor sent with each request that went out (0: none)
ToolReturn(kind, detail, calls, tools, pages) ==
  [raised |-> FALSE, kind |-> kind, detail |-> detail, calls |-> calls, tools |-> tools, pages |-> pages]

ToolRaise(detail, calls) ==
  [raised |-> TRUE, kind |-> "exception", detail |-> detail, calls |-> calls, tools |-> <<>>, pages |-> 0]

\* health_manager_mcp without its try/except: a gateway exception leaves the tool
health_manager_mcp_unguarded(g) ==
  LET r == call_mcp_gateway_with_m2m(g)
      n == IF r.sent THEN <<0>> ELSE <<>>
  IN IF r.raised THEN ToolRaise(r.msg, n)
     ELSE IF ResultTypeError(r.result) THEN ToolRaise(E_TYPE, n)
     ELSE ToolReturn("str_result", "", n, <<>>, 0)

\* health_manager_mcp: one tools/call, result normalisation, and the
\* try/except that turns every exception into an error string
health_manager_mcp(g) ==
  LET r == call_mcp_gateway_with_m2m(g)
      n == IF r.sent THEN <<0>> ELSE <<>>
  IN IF r.raised THEN ToolReturn("error_text", r.msg, n, <<>>, 0)
     ELSE IF FalsyResult(r.result) THEN ToolReturn("empty_result_msg", "", n, <<>>, 0)
     ELSE IF ResultTypeError(r.result) THEN ToolReturn("error_text", E_TYPE, n, <<>>, 0)
     ELSE IF r.result.kind = "content_text" THEN ToolReturn("first_text", "", n, <<>>, 0)
     ELSE IF r.result.kind = "content_first_no_text" THEN ToolReturn("str_first_block", "", n, <<>>, 0)
     ELSE IF r.result.kind \in {"content_empty_list", "content_not_list"} THEN ToolReturn("str_content", "", n, <<>>, 0)
     ELSE ToolReturn("str_result", "", n, <<>>, 0)

\* a tools/list gateway: pages 1..good answer 200 with one tool each and a
\* nextCursor naming the following page; every later page answers with 'last'
ListScenario(good, last) == [good |-> good, last |-> last]

PageOf(sc, n) ==
  IF n <= sc.good THEN Response(TRUE, TRUE, 200, FALSE, PageResult(TRUE, <<n>>, n + 1))
  ELSE sc.last

OkLastPages ==
  { Response(TRUE, TRUE, 200, FALSE, r) :
      r \in {NullResult, PageResult(TRUE, <<0>>, 0), PageResult(FALSE, <<>>, 0)} }

ListScenarios(maxGood) ==
  { ListScenario(n, last) : n \in 0..maxGood, last \in FailureResponses \cup OkLastPages }

\* the while-loop of list_health_tools from page 'page_count' on
RECURSIVE list_loop(_, _, _, _, _)
\* a page cap that is off by one (stops after page 11)
list_loop_cap_off_by_one(sc, page_count, cursor, all_tools, calls) ==
  LET r == call_mcp_gateway_with_m2m(PageOf(sc, page_count))
      calls2 == IF r.sent THEN Append(calls, cursor) ELSE calls
      tools2 == IF r.result.hasTools THEN all_tools \o r.result.tools ELSE all_tools
  IN IF r.raised THEN [raised |-> TRUE, msg |-> r.msg, tools |-> all_tools, pages |-> page_count, calls |-> calls2]
     ELSE IF FalsyResult(r.result)
       THEN [raised |-> FALSE, msg |-> "", tools |-> all_tools, pages |-> page_count, calls |-> calls2]
     ELSE IF r.result.cursor = 0 \/ page_count > MaxPages
       THEN [raised |-> FALSE, msg |-> "", tools |-> tools2, pages |-> page_count, calls |-> calls2]
     ELSE list_loop(sc, page_count + 1, r.result.cursor, tools2, calls2)

list_loop(sc, page_count, cursor, all_tools, calls) ==
  LET r == call_mcp_gateway_with_m2m(PageOf(sc, page_count))
      calls2 == IF r.sent THEN Append(calls, cursor) ELSE calls
      tools2 == IF r.result.hasTools THEN all_tools \o r.result.tools ELSE all_tools
  IN IF r.raised THEN [raised |-> TRUE, msg |-> r.msg, tools |-> all_tools, pages |-> page_count, calls |-> calls2]
     ELSE IF FalsyResult(r.result)
       THEN [raised |-> FALSE, msg |-> "", tools |-> all_tools, pages |-> page_count, calls |-> calls2]
     ELSE IF r.result.cursor = 0 \/ page_count >= MaxPages
       THEN [raised |-> FALSE, msg |-> "", tools |-> tools2, pages |-> page_count, calls |-> calls2]
     ELSE list_loop(sc, page_count + 1, r.result.cursor, tools2, calls2)

\* list_health_tools without its try/except
list_health_tools_unguarded(sc) ==
  LET r == list_loop(sc, 1, 0, <<>>, <<>>)
  IN IF r.raised THEN ToolRaise(r.msg, r.calls)
     ELSE ToolReturn("tool_list", "", r.calls, r.tools, r.pages)

\* a listing that asks for the first page only
list_health_tools_first_page(sc) ==
  LET r == call_mcp_gateway_with_m2m(PageOf(sc, 1))
      n == IF r.sent THEN <<0>> ELSE <<>>
  IN IF r.raised THEN ToolReturn("error_text", r.msg, n, <<>>, 0)
     ELSE IF FalsyResult(r.result) \/ ~r.result.hasTools THEN ToolReturn("no_tools_msg", "", n, <<>>, 1)
     ELSE ToolReturn("tool_list", "", n, r.result.tools, 1)

\* a listing that keeps the pages it has when a later page fails
list_health_tools_keep_partial(sc) ==
  LET r == list_loop(sc, 1, 0, <<>>, <<>>)
  IN IF r.raised /\ r.tools = <<>> THEN ToolReturn("error_text", r.msg, r.calls, <<>>, 0)
     ELSE IF r.tools = <<>> THEN ToolReturn("no_tools_msg", "", r.calls, <<>>, r.pages)
     ELSE ToolReturn("tool_list", "", r.calls, r.tools, r.pages)

\* list_health_tools: paginate, format, and turn every exception into text
list_health_tools(sc) ==
  LET r == list_loop(sc, 1, 0, <<>>, <<>>)
  IN IF r.raised THEN ToolReturn("error_text", r.msg, r.calls, <<>>, 0)
     ELSE IF r.tools = <<>> THEN ToolReturn("no_tools_msg", "", r.calls, <<>>, r.pages)
     ELSE ToolReturn("tool_list", "", r.calls, r.tools, r.pages)

\* ------------------------------------------------------------------------
\* Events of the outbound stream
\* ------------------------------------------------------------------------
TextDelta(t) == [type |-> "contentBlockDelta", text |-> t, stage |-> "-", tool |-> "-"]

\* send_event: a subAgentProgress item (tool_name only when given)
Progress(stage, tool) == [type |-> "subAgentProgress", text |-> "-", stage |-> stage, tool |-> tool]

\* texts of the events invoke yields itself
E_AUTH_HEADER == "E_AUTH_HEADER_REQUIRED"
E_JWT_TOKEN == "E_JWT_TOKEN_REQUIRED"
E_SESSION == "E_SESSION_ID_33"
E_USER_ID == "E_USER_ID_NOT_EXTRACTED"
GREETING == "GREETING"
E_HANDLER == "E_HANDLER_SORRY"

\* one text value: text deltas stay distinct from the progress items around them
Texts == {"a"}
ToolNames == {"x"}

\* raw generation events of the model runtime (agent.stream_async):
\* a str chunk, a dict with an "event" key (optionally a toolUse start and/or
\* a text delta), or anything else
RawEvent(shape, text, tool) == [shape |-> shape, text |-> text, tool |-> tool]

RawEvents ==
  { RawEvent("str", t, Absent) : t \in Texts }
  \cup { RawEvent("event", t, n) : t \in Texts \cup {Absent}, n \in ToolNames \cup {Absent} }
  \cup { RawEvent("other", Absent, Absent) }

\* _extract_health_coach_events: the items put on the queue for one raw event
extract_health_coach_events(ev) ==
  IF ev.shape = "str" THEN <<TextDelta(ev.text)>>
  ELSE IF ev.shape = "event"
    THEN (IF ev.tool # Absent THEN <<Progress("tool_use", ev.tool)>> ELSE <<>>)
         \o (IF ev.text # Absent
               THEN <<[type |-> "contentBlockDelta", text |-> ev.text, stage |-> "-",
                       tool |-> IF ev.tool # Absent THEN ev.tool ELSE "-"]>>
               ELSE <<>>)
  ELSE <<>>

\* _extract_health_coach_events: what one raw event appends to state["text"]
extract_text(ev) ==
  IF ev.shape \in {"str", "event"} /\ ev.text # Absent THEN <<ev.text>> ELSE <<>>

\* ------------------------------------------------------------------------
\* Requests
\* ------------------------------------------------------------------------
\* Authorization header: absent, or "Bearer " + token, or the bare token
Header(present, bearer, tok) == [present |-> present, bearer |-> bearer, tok |-> tok]

NoHeader == Header(FALSE, FALSE, EmptyToken)

Headers == {NoHeader} \cup { Header(TRUE, b, t) : b \in BOOLEAN, t \in Tokens }

\* context.session_id by its length (-1: None)
SessionLens == {-1, 0, MinSessionLen - 1, MinSessionLen}

Prompts == {"", "hi"}
Timezones == {Absent, "UTC"}
\* the single-request entry point treats language exactly like timezone; requests
\* that declare a language are served in the concurrent specification
Languages == {Absent}

Requests ==
  [header : Headers, session : SessionLens, prompt : Prompts,
   timezone : Timezones, language : Languages]

\* environment of the process: BEDROCK_AGENTCORE_MEMORY_ID / HEALTHMATE_AI_MODEL set
Environments == [memory_id : BOOLEAN, model_id : BOOLEAN]

VARIABLES
  request,            \* the inbound request (payload + context)
  env,                \* environment configuration of the process
  current_jwt_token,  \* module globals written by invoke
  current_timezone,
  current_language,
  pc,                 \* where the invoke generator stands
  prod,               \* state of the producer task (response_task)
  queue,              \* the asyncio.Queue shared by producer and invoke
  enq,                \* history: every item ever put on the queue
  obs,                \* history: every item yielded to the caller
  state_text,         \* state["text"] of invoke_health_coach
  nraw,               \* raw generation events consumed so far
  timeouts,           \* poll timeouts seen while the producer was running
  drained,            \* history: items yielded by the drain loop
  checks,             \* history: entry checks evaluated, in order
  failCause,          \* what made the producer raise
  agentCfg,           \* timezone/language/actor the system prompt was built from
  lastTool,           \* outcome of the latest tool invocation
  pending,            \* the tool invocation waiting for an answer of the gateway
  toolCalls,          \* tool invocations made by the model runtime
  calls,              \* counters of calls to collaborators
  ready,              \* legacy loop: ready_tasks still to process, in iteration order
  waiting,            \* legacy loop: the set `waiting`
  response_task,      \* legacy loop: FALSE once the variable response_task is None
  qtask,              \* legacy loop: the task held in the variable queue_task
  inflight,           \* concurrent requests: each request and where its handling stands
  fcall               \* a helper function applied on its own: name, argument, outcome

vars ==
  <<request, env, current_jwt_token, current_timezone, current_language, pc, prod,
    queue, enq, obs, state_text, nraw, timeouts, drained, checks, failCause, agentCfg,
    lastTool, pending, toolCalls, calls, ready, waiting, response_task, qtask,
    inflight, fcall>>

\* variables only the legacy asyncio.wait loop uses
LegacyVars == <<ready, waiting, response_task, qtask>>

\* variables the legacy asyncio.wait loop never touches
PollOnlyVars ==
  <<request, env, current_jwt_token, current_timezone, current_language, timeouts, drained,
    checks, agentCfg, lastTool, pending, toolCalls, calls, inflight, fcall>>

NoCalls == [decode |-> 0, task |-> 0, memory |-> 0, agent |-> 0, runtime |-> 0, gateway |-> 0]

NoToolYet == [used |-> FALSE, gatewayFailed |-> FALSE, raised |-> FALSE, errorText |-> FALSE]

NoAgentCfg == [timezone |-> None, language |-> None, actor |-> None]

\* a tool suspended at `await client.post`: the tool and the number of the
\* gateway request it waits for
Pending(tool, page) == [active |-> TRUE, tool |-> tool, page |-> page]

NoPending == [active |-> FALSE, tool |-> "-", page |-> 0]

\* queue_task: a task running queue.get(); "done" once it holds an item
QueueTask(st, item) == [st |-> st, item |-> item]

NoItem == [type |-> "-", text |-> "-", stage |-> "-", tool |-> "-"]

NoQueueTask == QueueTask("none", NoItem)

\* no helper function is being applied on its own
NoCall == [fn |-> "none", arg |-> "-", out |-> "-", done |-> FALSE]

Init ==
  /\ request \in Requests
  /\ env \in Environments
  /\ current_jwt_token = NoToken
  /\ current_timezone = None
  /\ current_language = None
  /\ pc = "entry"
  /\ prod = "none"
  /\ queue = <<>>
  /\ enq = <<>>
  /\ obs = <<>>
  /\ state_text = <<>>
  /\ nraw = 0
  /\ timeouts = 0
  /\ drained = 0
  /\ checks = <<>>
  /\ failCause = "none"
  /\ agentCfg = NoAgentCfg
  /\ lastTool = NoToolYet
  /\ pending = NoPending
  /\ toolCalls = 0
  /\ calls = NoCalls
  /\ ready = <<>>
  /\ waiting = {}
  /\ response_task = FALSE
  /\ qtask = NoQueueTask
  /\ inflight = <<>>
  /\ fcall = NoCall

\* ------------------------------------------------------------------------
\* invoke: entry validation (agent/healthmate_coach_ai/agent.py)
\* ------------------------------------------------------------------------
\* `not auth_header`
HeaderMissing(req) ==
  ~req.header.present \/ (~req.header.bearer /\ req.header.tok = EmptyToken)

\* jwt_token_from_context: the header with its 'Bearer ' prefix removed
TokenOf(req) == req.header.tok

\* a session check that is off by one (accepts 32 characters)
SessionInvalid_offbyone(req) == req.session < MinSessionLen - 1

\* `not session_id_from_context or len(session_id_from_context) < 33`
SessionInvalid(req) == req.session < MinSessionLen

\* payload.get("timezone", "Asia/Tokyo") / payload.get("language", "ja")
TimezoneOf(req) == IF req.timezone = Absent THEN "Asia/Tokyo" ELSE req.timezone

LanguageOf(req) == IF req.language = Absent THEN "ja" ELSE req.language

\* frame of the actions that only yield one event and then return
EntryFrame ==
  UNCHANGED <<request, env, prod, queue, enq, state_text, nraw, timeouts, drained, failCause,
              agentCfg, lastTool, pending, toolCalls, ready, waiting, response_task, qtask,
              inflight, fcall>>

\* yield one text event; the generator returns when the caller resumes it
YieldFinal(text) ==
  /\ obs' = Append(obs, TextDelta(text))
  /\ pc' = "yield_final"

invoke_reject_header ==
  /\ pc = "entry"
  /\ HeaderMissing(request)
  /\ YieldFinal(E_AUTH_HEADER)
  /\ checks' = <<"credential">>
  /\ UNCHANGED <<current_jwt_token, current_timezone, current_language, calls>>
  /\ EntryFrame

\* a token check placed after the globals are set and the token is decoded
invoke_reject_token_late ==
  /\ pc = "entry"
  /\ ~HeaderMissing(request)
  /\ TokenOf(request) = EmptyToken
  /\ YieldFinal(E_JWT_TOKEN)
  /\ checks' = <<"credential">>
  /\ current_jwt_token' = TokenOf(request)
  /\ calls' = [calls EXCEPT !.decode = @ + 1]
  /\ UNCHANGED <<current_timezone, current_language>>
  /\ UNCHANGED <<request, env, prod, queue, enq, state_text, nraw, timeouts, drained, failCause,
                 agentCfg, lastTool, pending, toolCalls, ready, waiting, response_task, qtask,
                 inflight, fcall>>

invoke_reject_token ==
  /\ pc = "entry"
  /\ ~HeaderMissing(request)
  /\ TokenOf(request) = EmptyToken
  /\ YieldFinal(E_JWT_TOKEN)
  /\ checks' = <<"credential">>
  /\ UNCHANGED <<current_jwt_token, current_timezone, current_language, calls>>
  /\ EntryFrame

invoke_reject_session ==
  /\ pc = "entry"
  /\ ~HeaderMissing(request)
  /\ TokenOf(request) # EmptyToken
  /\ SessionInvalid(request)
  /\ YieldFinal(E_SESSION)
  /\ checks' = <<"credential", "session">>
  /\ UNCHANGED <<current_jwt_token, current_timezone, current_language, calls>>
  /\ EntryFrame

\* the request passed the credential and session checks: lines 573-581
PassedSession(req) ==
  /\ ~HeaderMissing(req)
  /\ TokenOf(req) # EmptyToken
  /\ ~SessionInvalid(req)

SetGlobals ==
  /\ current_jwt_token' = TokenOf(request)
  /\ current_timezone' = TimezoneOf(request)
  /\ current_language' = LanguageOf(request)
  /\ calls' = [calls EXCEPT !.decode = @ + 1]
  /\ checks' = <<"credential", "session", "subject">>

\* user_info of the request being validated
EntryUserInfo == get_user_info(TokenOf(request), TimezoneOf(request), LanguageOf(request))

\* payload.get('sub') raises AttributeError: the generator ends by exception
invoke_subject_raises ==
  /\ pc = "entry"
  /\ PassedSession(request)
  /\ EntryUserInfo.raised
  /\ SetGlobals
  /\ pc' = "raised"
  /\ UNCHANGED obs
  /\ EntryFrame

invoke_reject_subject ==
  /\ pc = "entry"
  /\ PassedSession(request)
  /\ ~EntryUserInfo.raised
  /\ ~Truthy(EntryUserInfo.user_id)
  /\ SetGlobals
  /\ YieldFinal(E_USER_ID)
  /\ EntryFrame

invoke_greeting ==
  /\ pc = "entry"
  /\ PassedSession(request)
  /\ ~EntryUserInfo.raised
  /\ Truthy(EntryUserInfo.user_id)
  /\ request.prompt = ""
  /\ SetGlobals
  /\ YieldFinal(GREETING)
  /\ EntryFrame

\* the caller resumes the generator after a terminal event: `return`
invoke_return ==
  /\ pc = "yield_final"
  /\ pc' = "ended"
  /\ UNCHANGED <<request, env, current_jwt_token, current_timezone, current_language, prod,
                 queue, enq, obs, state_text, nraw, timeouts, drained, checks, failCause,
                 agentCfg, lastTool, pending, toolCalls, calls, ready, waiting, response_task, qtask,
                 inflight, fcall>>

\* an accept path that does not look at the prompt
invoke_accept_any_prompt ==
  /\ pc = "entry"
  /\ PassedSession(request)
  /\ ~EntryUserInfo.raised
  /\ Truthy(EntryUserInfo.user_id)
  /\ current_jwt_token' = TokenOf(request)
  /\ current_timezone' = TimezoneOf(request)
  /\ current_language' = LanguageOf(request)
  /\ checks' = <<"credential", "session", "subject">>
  /\ calls' = [calls EXCEPT !.decode = @ + 1, !.task = @ + 1]
  /\ queue' = <<>>
  /\ prod' = "new"
  /\ pc' = "poll"
  /\ UNCHANGED <<request, env, enq, obs, state_text, nraw, timeouts, drained, failCause,
                 agentCfg, lastTool, pending, toolCalls, ready, waiting, response_task, qtask,
                 inflight, fcall>>

\* queue = asyncio.Queue(); response_task = asyncio.create_task(...); first poll
invoke_accept ==
  /\ pc = "entry"
  /\ PassedSession(request)
  /\ ~EntryUserInfo.raised
  /\ Truthy(EntryUserInfo.user_id)
  /\ request.prompt # ""
  /\ current_jwt_token' = TokenOf(request)
  /\ current_timezone' = TimezoneOf(request)
  /\ current_language' = LanguageOf(request)
  /\ checks' = <<"credential", "session", "subject">>
  /\ calls' = [calls EXCEPT !.decode = @ + 1, !.task = @ + 1]
  /\ queue' = <<>>
  /\ prod' = "new"
  /\ pc' = "poll"
  /\ UNCHANGED <<request, env, enq, obs, state_text, nraw, timeouts, drained, failCause,
                 agentCfg, lastTool, pending, toolCalls, ready, waiting, response_task, qtask,
                 inflight, fcall>>

\* ------------------------------------------------------------------------
\* The producer task: invoke_health_coach
\* ------------------------------------------------------------------------
ProducerFrame ==
  UNCHANGED <<request, env, current_jwt_token, current_timezone, current_language, pc,
              obs, timeouts, drained, checks, ready, waiting, response_task, qtask,
              inflight, fcall>>

\* a put that waits while the consumer is suspended at a yield
Put_paused(items) ==
  /\ pc \notin {"yield_poll", "yield_drain"}
  /\ queue' = queue \o items
  /\ enq' = enq \o items

\* queue.put of a sequence of items
Put(items) ==
  /\ queue' = queue \o items
  /\ enq' = enq \o items

\* an except-branch that re-raises without sending the "error" item
ProducerRaise_silent(cause) ==
  /\ UNCHANGED <<queue, enq>>
  /\ prod' = "failed"
  /\ failCause' = cause

\* an except-branch that starts the agent creation over, once
ProducerRaise_retry(cause) ==
  /\ Put(<<Progress("error", "-")>>)
  /\ prod' = IF failCause = "none" THEN "create" ELSE "failed"
  /\ failCause' = cause

\* the except-branch of invoke_health_coach: one "error" progress item, then raise
ProducerRaise(cause) ==
  /\ Put(<<Progress("error", "-")>>)
  /\ prod' = "failed"
  /\ failCause' = cause

\* a producer that sends no "start" notice
producer_start_silent ==
  /\ prod = "new"
  /\ UNCHANGED <<queue, enq>>
  /\ prod' = "create"
  /\ UNCHANGED <<state_text, nraw, failCause, agentCfg, lastTool, pending, toolCalls, calls>>
  /\ ProducerFrame

\* send_event(queue, ..., "start")
producer_start ==
  /\ prod = "new"
  /\ Put(<<Progress("start", "-")>>)
  /\ prod' = "create"
  /\ UNCHANGED <<state_text, nraw, failCause, agentCfg, lastTool, pending, toolCalls, calls>>
  /\ ProducerFrame

\* user_info the system prompt is built from (reads the module globals)
PromptUserInfo == get_user_info(current_jwt_token, current_timezone, current_language)

\* _create_health_coach_agent_with_memory raises: missing memory id, memory
\* store failure, missing model id or Agent() failure
producer_create_fails ==
  /\ prod = "create"
  /\ \E cause \in {"memory_id", "memory_store", "model_id", "agent"} :
       /\ cause = "memory_id" => ~env.memory_id
       /\ cause # "memory_id" => env.memory_id
       /\ cause = "model_id" => ~env.model_id
       /\ cause = "agent" => env.model_id
       /\ ProducerRaise(cause)
       /\ calls' = [calls EXCEPT !.decode = @ + 1,
                                 !.memory = @ + (IF cause = "memory_id" THEN 0 ELSE 1),
                                 !.agent = @ + (IF cause = "agent" THEN 1 ELSE 0)]
  /\ agentCfg' = [timezone |-> PromptUserInfo.timezone, language |-> PromptUserInfo.language,
                  actor |-> EntryUserInfo.user_id]
  /\ UNCHANGED <<state_text, nraw, lastTool, pending, toolCalls>>
  /\ ProducerFrame

\* the agent is built and agent.stream_async(query) is started
producer_create_agent ==
  /\ prod = "create"
  /\ env.memory_id
  /\ env.model_id
  /\ prod' = "stream"
  /\ agentCfg' = [timezone |-> PromptUserInfo.timezone, language |-> PromptUserInfo.language,
                  actor |-> EntryUserInfo.user_id]
  /\ calls' = [calls EXCEPT !.decode = @ + 1, !.memory = @ + 1, !.agent = @ + 1,
                            !.runtime = @ + 1]
  /\ UNCHANGED <<queue, enq, state_text, nraw, failCause, lastTool, pending, toolCalls>>
  /\ ProducerFrame

\* one raw generation event arrives and is translated
producer_event ==
  /\ prod = "stream"
  /\ ~pending.active
  /\ nraw < MaxEvents
  /\ \E ev \in RawEvents :
       /\ Put(extract_health_coach_events(ev))
       /\ state_text' = state_text \o extract_text(ev)
  /\ nraw' = nraw + 1
  /\ UNCHANGED <<prod, failCause, agentCfg, lastTool, pending, toolCalls, calls>>
  /\ ProducerFrame

\* the gateway fails a tools/list run: the failing page is requested before
\* the page cap stops the loop
ScenarioFails(sc) == sc.last \in FailureResponses /\ sc.good < MaxPages

\* what the model keeps of a tool that returned r: whether it raised, whether
\* it returned an error text, whether the gateway failed it, and how many
\* requests it had sent to the gateway by then
ToolOutcome(r, failed) ==
  [raised |-> r.raised, errorText |-> (r.kind = "error_text"), failed |-> failed,
   requests |-> Len(r.calls)]

\* the outcomes of health_manager_mcp over every answer of the gateway
CallOutcomes ==
  { ToolOutcome(health_manager_mcp(g), g \in FailureResponses) :
      g \in FailureResponses \cup OkCallResponses }

\* the outcomes of list_health_tools over every run of the gateway
ListOutcomes ==
  { ToolOutcome(list_health_tools(sc), ScenarioFails(sc)) : sc \in ListScenarios(MaxGoodPages) }

\* a tool returns to the model runtime with outcome o.  An exception leaving
\* the tool ends the stream.
ToolStep(o) ==
  /\ lastTool' = [used |-> TRUE, gatewayFailed |-> o.failed, raised |-> o.raised,
                  errorText |-> o.errorText]
  /\ toolCalls' = toolCalls + 1
  /\ pending' = NoPending
  /\ UNCHANGED calls
  /\ IF o.raised
       THEN ProducerRaise("tool")
       ELSE UNCHANGED <<queue, enq, prod, failCause>>

\* a request goes out to the gateway and the tool waits for the answer
SendRequest(tool, page) ==
  /\ pending' = Pending(tool, page)
  /\ calls' = [calls EXCEPT !.gateway = @ + 1]
  /\ UNCHANGED <<lastTool, toolCalls, queue, enq, prod, failCause>>

\* the model runtime invokes health_manager_mcp or list_health_tools: the
\* tool runs up to its first `await client.post`, or returns its error text
\* at once when no M2M access token is to be had (no request sent)
producer_tool_request ==
  /\ prod = "stream"
  /\ ~pending.active
  /\ toolCalls < MaxToolCalls
  /\ \/ \E o \in CallOutcomes \cup ListOutcomes :
          /\ o.requests = 0
          /\ ToolStep(o)
     \/ \E tool \in {"health_manager_mcp", "list_health_tools"} : SendRequest(tool, 1)
  /\ UNCHANGED <<state_text, nraw, agentCfg>>
  /\ ProducerFrame

\* the gateway answers the request the tool waits for: health_manager_mcp
\* returns; list_health_tools returns or, after a page with a nextCursor,
\* sends the request for the next page
producer_tool_response ==
  /\ prod = "stream"
  /\ pending.active
  /\ \/ /\ pending.tool = "health_manager_mcp"
        /\ \E o \in CallOutcomes :
             /\ o.requests = 1
             /\ ToolStep(o)
     \/ /\ pending.tool = "list_health_tools"
        /\ \E o \in ListOutcomes :
             /\ o.requests = pending.page
             /\ ToolStep(o)
     \/ /\ pending.tool = "list_health_tools"
        /\ pending.page <= MaxGoodPages
        /\ pending.page < MaxPages
        /\ SendRequest("list_health_tools", pending.page + 1)
  /\ UNCHANGED <<state_text, nraw, agentCfg>>
  /\ ProducerFrame

\* the model runtime raises in the middle of the stream
producer_runtime_fails ==
  /\ prod = "stream"
  /\ ~pending.active
  /\ ProducerRaise("runtime")
  /\ UNCHANGED <<state_text, nraw, agentCfg, lastTool, pending, toolCalls, calls>>
  /\ ProducerFrame

\* the stream is exhausted: send_event(queue, ..., "complete"); return state["text"]
producer_complete ==
  /\ prod = "stream"
  /\ ~pending.active
  /\ Put(<<Progress("complete", "-")>>)
  /\ prod' = "done"
  /\ UNCHANGED <<state_text, nraw, failCause, agentCfg, lastTool, pending, toolCalls, calls>>
  /\ ProducerFrame

\* response_task.done()
TaskDone == prod \in {"done", "failed"}

\* ------------------------------------------------------------------------
\* invoke: the poll loop
\* ------------------------------------------------------------------------
ConsumerFrame ==
  UNCHANGED <<request, env, current_jwt_token, current_timezone, current_language, prod,
              enq, state_text, nraw, checks, failCause, agentCfg, lastTool, pending, toolCalls, calls,
              ready, waiting, response_task, qtask,
              inflight, fcall>>

\* a dequeue that takes the newest item instead of the oldest
GetAndYield_lifo(next) ==
  /\ queue # <<>>
  /\ obs' = Append(obs, queue[Len(queue)])
  /\ queue' = SubSeq(queue, 1, Len(queue) - 1)
  /\ pc' = next

\* queue.get() / queue.get_nowait() followed by `yield event`
GetAndYield(next) ==
  /\ queue # <<>>
  /\ obs' = Append(obs, Head(queue))
  /\ queue' = Tail(queue)
  /\ pc' = next

\* event = await asyncio.wait_for(queue.get(), timeout=0.1); yield event
poll_get ==
  /\ pc = "poll"
  /\ GetAndYield("yield_poll")
  /\ UNCHANGED <<timeouts, drained>>
  /\ ConsumerFrame

\* the caller resumes the generator: back to wait_for
poll_resume ==
  /\ pc = "yield_poll"
  /\ pc' = "poll"
  /\ UNCHANGED <<queue, obs, timeouts, drained>>
  /\ ConsumerFrame

\* a timeout branch that tells the caller about the timeout
poll_timeout_running_heartbeat ==
  /\ pc = "poll"
  /\ ~TaskDone
  /\ timeouts < MaxTimeouts
  /\ timeouts' = timeouts + 1
  /\ obs' = Append(obs, Progress("timeout", "-"))
  /\ UNCHANGED <<pc, queue, drained>>
  /\ ConsumerFrame

\* asyncio.TimeoutError while the producer is running: continue
poll_timeout_running ==
  /\ pc = "poll"
  /\ ~TaskDone
  /\ timeouts < MaxTimeouts
  /\ timeouts' = timeouts + 1
  /\ UNCHANGED <<pc, queue, obs, drained>>
  /\ ConsumerFrame

\* a timeout branch that breaks as soon as the task is done, without draining
poll_timeout_done_nodrain ==
  /\ pc = "poll"
  /\ TaskDone
  /\ pc' = "ended"
  /\ UNCHANGED <<queue, obs, timeouts, drained>>
  /\ ConsumerFrame

\* a timeout branch that keeps polling although the task is done
poll_timeout_done_continue ==
  /\ pc = "poll"
  /\ TaskDone
  /\ UNCHANGED <<pc, queue, obs, timeouts, drained>>
  /\ ConsumerFrame

\* asyncio.TimeoutError with response_task.done(): enter the drain loop
poll_timeout_done ==
  /\ pc = "poll"
  /\ TaskDone
  /\ pc' = "drain"
  /\ UNCHANGED <<queue, obs, timeouts, drained>>
  /\ ConsumerFrame

\* while not queue.empty(): event = queue.get_nowait(); yield event
drain_get ==
  /\ pc = "drain"
  /\ GetAndYield("yield_drain")
  /\ drained' = drained + 1
  /\ UNCHANGED timeouts
  /\ ConsumerFrame

drain_resume ==
  /\ pc = "yield_drain"
  /\ pc' = "drain"
  /\ UNCHANGED <<queue, obs, timeouts, drained>>
  /\ ConsumerFrame

\* queue.empty(): break out of both loops, the generator returns
drain_end ==
  /\ pc = "drain"
  /\ queue = <<>>
  /\ pc' = "ended"
  /\ UNCHANGED <<queue, obs, timeouts, drained>>
  /\ ConsumerFrame

Next ==
  \/ invoke_reject_header
  \/ invoke_reject_token
  \/ invoke_reject_session
  \/ invoke_subject_raises
  \/ invoke_reject_subject
  \/ invoke_greeting
  \/ invoke_return
  \/ invoke_accept
  \/ producer_start
  \/ producer_create_fails
  \/ producer_create_agent
  \/ producer_event
  \/ producer_tool_request
  \/ producer_tool_response
  \/ producer_runtime_fails
  \/ producer_complete
  \/ poll_get
  \/ poll_resume
  \/ poll_timeout_running
  \/ poll_timeout_done
  \/ drain_get
  \/ drain_resume
  \/ drain_end

Spec == Init /\ [][Next]_vars

\* ------------------------------------------------------------------------
\* Properties of the poll-loop entry point (specification Spec)
\* ------------------------------------------------------------------------
\* number of items of a sequence that satisfy a stage
CountStage(seq, stage) ==
  Cardinality({ i \in 1..Len(seq) : seq[i].type = "subAgentProgress" /\ seq[i].stage = stage })

\* C1: once a producer is launched, what the caller has observed followed by
\* what is still queued is exactly what the producer enqueued, in enqueue
\* order: nothing reordered, duplicated, coalesced or inserted.
C1_EnqueueOrder == prod # "none" => obs \o queue = enq

C1_Witness ==
  /\ pc = "ended"
  /\ prod = "done"
  /\ timeouts > 0
  /\ Len(obs) >= 5
  /\ obs[2] # obs[3]

\* C2: when the stream of a launched producer ends, the producer task is
\* done, the queue is empty and every enqueued item has been yielded.
C2_DrainOnCompletion ==
  (pc = "ended" /\ prod # "none") => (TaskDone /\ queue = <<>> /\ obs = enq)

C2_Witness ==
  /\ pc = "ended"
  /\ TaskDone
  /\ drained >= 2
  /\ obs = enq

\* C3: a producer that raised has enqueued exactly one "error" notice and no
\* "complete" notice, and when the stream has ended the "error" notice is the
\* last item the caller observed.
C3_SingleErrorNotice ==
  prod = "failed" =>
    /\ CountStage(enq, "error") = 1
    /\ CountStage(enq, "complete") = 0
    /\ pc = "ended" => (obs # <<>> /\ obs[Len(obs)] = Progress("error", "-"))

C3_Witness ==
  /\ pc = "ended"
  /\ prod = "failed"
  /\ failCause = "runtime"
  /\ Len(obs) >= 3

\* C4: when the producer task ended with an exception, the last item of the
\* stream is the text delta of the exception handler of invoke.
C4_FinalTextError ==
  (pc = "ended" /\ prod = "failed") => (obs # <<>> /\ obs[Len(obs)] = TextDelta(E_HANDLER))

\* C6: a failing gateway call inside a tool comes back to the model as an
\* error text; no exception reaches the producer task, so the stream is not
\* aborted and no "error" notice is enqueued because of it.
C6_ToolErrorsAreText ==
  /\ lastTool.used => ~lastTool.raised
  /\ (lastTool.used /\ lastTool.gatewayFailed) => lastTool.errorText
  /\ failCause # "tool"
  /\ prod # "failed" => CountStage(enq, "error") = 0

C6_Witness ==
  /\ pc = "ended"
  /\ prod = "done"
  /\ lastTool.used
  /\ lastTool.gatewayFailed
  /\ calls.gateway > 0

\* the claim's reading of the three entry checks, from the request alone
MissingCredential(req) == ~req.header.present \/ req.header.tok = EmptyToken

ShortSession(req) == req.session < 33

\* the token decodes to a JSON object with a non-empty "sub"
SubjectResolvable(req) ==
  LET p == decode_jwt_payload(req.header.tok)
  IN p.isobj /\ Truthy(p.sub)

FirstFailingCheck(req) ==
  IF MissingCredential(req) THEN "credential"
  ELSE IF ShortSession(req) THEN "session"
  ELSE IF ~SubjectResolvable(req) THEN "subject"
  ELSE "none"

\* C7: a request failing a check gets exactly one event, the error of the
\* first failing check (credential, session, subject), the stream ends after
\* it, and no later check is evaluated.
C7_FirstFailingCheckOnly ==
  LET f == FirstFailingCheck(request)
  IN (f # "none" /\ pc # "entry") =>
       /\ pc \in {"yield_final", "ended"}
       /\ Len(obs) = 1
       /\ obs[1].type = "contentBlockDelta"
       /\ f = "credential" => (obs[1].text \in {E_AUTH_HEADER, E_JWT_TOKEN} /\ checks = <<"credential">>)
       /\ f = "session" => (obs[1].text = E_SESSION /\ checks = <<"credential", "session">>)
       /\ f = "subject" => (obs[1].text = E_USER_ID /\ checks = <<"credential", "session", "subject">>)

\* C8: a request with a credential whose session identifier is absent or
\* shorter than 33 gets the session error as its only event; no producer task
\* is created and gateway, model runtime and memory store are never called.
C8_ShortSessionRejected ==
  (~MissingCredential(request) /\ ShortSession(request)) =>
    /\ prod = "none"
    /\ calls.task = 0 /\ calls.gateway = 0 /\ calls.runtime = 0 /\ calls.memory = 0
    /\ pc # "entry" => (pc \in {"yield_final", "ended"} /\ obs = <<TextDelta(E_SESSION)>>)

C8_Witness ==
  /\ pc = "ended"
  /\ ~MissingCredential(request)
  /\ request.session = 32
  /\ obs = <<TextDelta(E_SESSION)>>

\* C9: a request without a bearer credential is rejected without the
\* credential-decoding path ever being entered.
C9_NoDecodeWithoutCredential ==
  MissingCredential(request) =>
    /\ calls.decode = 0
    /\ current_jwt_token = NoToken
    /\ pc # "entry" => (pc \in {"yield_final", "ended"} /\ Len(obs) = 1
                        /\ obs[1].text \in {E_AUTH_HEADER, E_JWT_TOKEN})

C9_Witness ==
  /\ pc = "ended"
  /\ request.header.present
  /\ request.header.bearer
  /\ request.header.tok = EmptyToken
  /\ obs = <<TextDelta(E_JWT_TOKEN)>>

\* C10: an empty prompt with a valid credential and session yields exactly
\* the greeting and ends; no producer task, no gateway call.
C10_EmptyPromptGreeting ==
  (FirstFailingCheck(request) = "none" /\ request.prompt = "") =>
    /\ prod = "none"
    /\ calls.task = 0 /\ calls.gateway = 0 /\ calls.runtime = 0
    /\ pc # "entry" => (pc \in {"yield_final", "ended"} /\ obs = <<TextDelta(GREETING)>>)

C10_Witness ==
  /\ pc = "ended"
  /\ request.prompt = ""
  /\ obs = <<TextDelta(GREETING)>>
  /\ calls.decode = 1

\* C12: a request whose credential is malformed or names no subject is
\* turned away with a user-facing error event (the session error or the
\* subject error) and no producer task is ever launched for it.
C12_FailClosed ==
  (~MissingCredential(request) /\ ~SubjectResolvable(request) /\ pc # "entry") =>
    /\ prod = "none"
    /\ calls.task = 0
    /\ pc \in {"yield_final", "ended"}
    /\ obs \in {<<TextDelta(E_SESSION)>>, <<TextDelta(E_USER_ID)>>}

\* C18: per request the agent is created at most once and the model runtime
\* is started at most once; once the producer has raised, no agent is
\* created, the runtime is not started and nothing more is enqueued.
C18_NoRetry ==
  /\ [](calls.agent <= 1 /\ calls.runtime <= 1)
  /\ [][failCause # "none" =>
         /\ prod' = "failed"
         /\ enq' = enq
         /\ calls'.agent = calls.agent
         /\ calls'.runtime = calls.runtime
         /\ calls'.memory = calls.memory]_vars

C18_Witness ==
  /\ pc = "ended"
  /\ prod = "failed"
  /\ failCause = "runtime"
  /\ calls.agent = 1
  /\ calls.runtime = 1
  /\ nraw >= 1

\* the steps of an accepted request that touch the queue, the producer task
\* or the poll loop (a tool call inside the stream touches none of them: the
\* tools turn every exception into text)
NextAccepted ==
  \/ invoke_accept
  \/ producer_start
  \/ producer_create_fails
  \/ producer_create_agent
  \/ producer_event
  \/ producer_runtime_fails
  \/ producer_complete
  \/ poll_get
  \/ poll_resume
  \/ poll_timeout_running
  \/ poll_timeout_done
  \/ drain_get
  \/ drain_resume
  \/ drain_end

\* a request that passes entry validation and starts a producer task, in a
\* fully configured process
InitAccepted ==
  /\ Init
  /\ FirstFailingCheck(request) = "none"
  /\ request.prompt # ""
  /\ request.header.bearer
  /\ request.timezone = Absent
  /\ env = [memory_id |-> TRUE, model_id |-> TRUE]

\* the event loop runs every step of invoke that is ready, the 0.1 s timer of
\* wait_for fires, and the caller keeps resuming the generator; nothing is
\* assumed about the producer task
SpecAccepted ==
  /\ InitAccepted
  /\ [][NextAccepted]_vars
  /\ WF_vars(poll_get)
  /\ WF_vars(poll_resume)
  /\ WF_vars(poll_timeout_done)
  /\ WF_vars(drain_get)
  /\ WF_vars(drain_resume)
  /\ WF_vars(drain_end)

\* C22: once the producer task is done, normally or by exception, the stream
\* eventually ends; and a poll timeout while the producer task is still
\* running never leaves the poll loop.
C22_PollLoopTerminates ==
  /\ (TaskDone ~> pc = "ended")
  /\ [][(pc = "poll" /\ ~TaskDone) => pc' \in {"poll", "yield_poll"}]_vars

C22_Witness ==
  /\ pc = "ended"
  /\ TaskDone
  /\ timeouts >= 1
  /\ prod = "failed"
  /\ queue = <<>>

\* the stages of the progress notices in a sequence of items
IsProgress(item, stage) == item.type = "subAgentProgress" /\ item.stage = stage

\* C23: for an accepted request whose producer completes normally, the first
\* item observed is the "start" notice, the last one is the "complete"
\* notice, every text delta and tool-use notice lies strictly between them
\* and nothing follows "complete".
C23_StartFirstCompleteLast ==
  (prod \in {"create", "stream", "done"} /\ failCause = "none") =>
    /\ obs # <<>> => IsProgress(obs[1], "start")
    /\ \A i \in 2..Len(obs) : ~IsProgress(obs[i], "start")
    /\ \A i \in 1..Len(obs) : IsProgress(obs[i], "complete") => i = Len(obs) /\ i > 1
    /\ (pc = "ended" /\ prod = "done") =>
         /\ Len(obs) >= 2
         /\ IsProgress(obs[Len(obs)], "complete")
         /\ \A i \in 2..(Len(obs) - 1) :
              obs[i].type = "contentBlockDelta" \/ IsProgress(obs[i], "tool_use")

C23_Witness ==
  /\ pc = "ended"
  /\ prod = "done"
  /\ Len(obs) = 5
  /\ IsProgress(obs[1], "start")
  /\ IsProgress(obs[2], "tool_use")
  /\ obs[3].type = "contentBlockDelta"
  /\ IsProgress(obs[5], "complete")

\* the texts invoke emits itself: entry validation and the exception handler
OwnTexts == {E_AUTH_HEADER, E_JWT_TOKEN, E_SESSION, E_USER_ID, GREETING, E_HANDLER}

\* C25: a poll timeout yields nothing to the caller, and every item the
\* caller observes was enqueued by the producer task or is a text emitted by
\* entry validation or the exception handler.
C25_TimeoutNotSurfaced ==
  /\ [][(pc = "poll" /\ pc' \in {"poll", "drain"}) => obs' = obs]_vars
  /\ [](\A i \in 1..Len(obs) :
          \/ \E j \in 1..Len(enq) : enq[j] = obs[i]
          \/ obs[i].type = "contentBlockDelta" /\ obs[i].text \in OwnTexts)

C25_Witness ==
  /\ pc = "ended"
  /\ prod = "done"
  /\ timeouts >= 1
  /\ Len(obs) >= 3
  /\ obs = enq

\* C26: while invoke is suspended at a yield, every enqueue the producer
\* task has arrived at is enabled: the "start" notice, the translated
\* generation events, the "complete" and the "error" notice (a producer
\* waiting for the gateway inside a tool has not arrived at an enqueue).
C26_NoBackpressure ==
  pc = "yield_poll" =>
    /\ prod = "new" => ENABLED producer_start
    /\ (prod = "stream" /\ ~pending.active /\ nraw < MaxEvents) => ENABLED producer_event
    /\ (prod = "stream" /\ ~pending.active) =>
         (ENABLED producer_complete /\ ENABLED producer_runtime_fails)

\* the caller holds the first item while the producer runs to completion
C26_Witness ==
  /\ pc = "yield_poll"
  /\ prod = "done"
  /\ obs = <<Progress("start", "-")>>
  /\ Len(queue) >= 3
  /\ obs \o queue = enq

\* C29: a request rejected by entry validation leaves the process-wide
\* credential, timezone and language as they were.
C29_RejectLeavesGlobals ==
  FirstFailingCheck(request) # "none" =>
    /\ current_jwt_token = NoToken
    /\ current_timezone = None
    /\ current_language = None

\* ------------------------------------------------------------------------
\* The legacy entry points (healthmate_coach_ai/agent.py and
\* health_coach_ai/agent.py): producer with fallback agent, asyncio.wait loop
\* ------------------------------------------------------------------------
\* an accepted request, as the loop finds it after the two create_task calls
LegacyRequest ==
  [header |-> Header(TRUE, TRUE, <<"h", SegSubU1, "s">>), session |-> MinSessionLen,
   prompt |-> "hi", timezone |-> Absent, language |-> Absent]

InitLegacy ==
  /\ request = LegacyRequest
  /\ env = [memory_id |-> TRUE, model_id |-> TRUE]
  /\ current_jwt_token = TokenOf(LegacyRequest)
  /\ current_timezone = TimezoneOf(LegacyRequest)
  /\ current_language = LanguageOf(LegacyRequest)
  /\ pc = "wait"
  /\ prod = "new"
  /\ queue = <<>>
  /\ enq = <<>>
  /\ obs = <<>>
  /\ state_text = <<>>
  /\ nraw = 0
  /\ timeouts = 0
  /\ drained = 0
  /\ checks = <<"credential", "session", "subject">>
  /\ failCause = "none"
  /\ agentCfg = NoAgentCfg
  /\ lastTool = NoToolYet
  /\ pending = NoPending
  /\ toolCalls = 0
  /\ calls = [NoCalls EXCEPT !.decode = 1, !.task = 2]
  /\ ready = <<>>
  /\ waiting = {"response", "queue"}
  /\ response_task = TRUE
  /\ qtask = QueueTask("pending", NoItem)
  /\ inflight = <<>>
  /\ fcall = NoCall

\* invoke is suspended (in asyncio.wait or at a yield): other tasks may run
Suspended == pc \in {"wait", "yield_queue", "yield_drain"}

LegacyProducerFrame ==
  UNCHANGED <<pc, obs, ready, waiting, response_task, qtask, PollOnlyVars>>

\* send_event(queue, ..., "start")
legacy_producer_start ==
  /\ Suspended
  /\ prod = "new"
  /\ Put(<<Progress("start", "-")>>)
  /\ prod' = "create"
  /\ UNCHANGED <<state_text, nraw, failCause>>
  /\ LegacyProducerFrame

\* _create_health_coach_agent_with_memory succeeded, stream_async starts
legacy_producer_create_agent ==
  /\ Suspended
  /\ prod = "create"
  /\ prod' = "stream"
  /\ UNCHANGED <<queue, enq, state_text, nraw, failCause>>
  /\ LegacyProducerFrame

\* an exception in the first attempt: the fallback agent is created and streams
legacy_producer_fallback ==
  /\ Suspended
  /\ prod \in {"create", "stream"}
  /\ prod' = "fallback_stream"
  /\ UNCHANGED <<queue, enq, state_text, nraw, failCause>>
  /\ LegacyProducerFrame

\* the fallback attempt raises too: "error" notice, the apology text is returned
legacy_producer_fallback_fails ==
  /\ Suspended
  /\ prod \in {"create", "stream", "fallback_stream"}
  /\ Put(<<Progress("error", "-")>>)
  /\ prod' = "done"
  /\ failCause' = "fallback"
  /\ UNCHANGED <<state_text, nraw>>
  /\ LegacyProducerFrame

legacy_producer_event ==
  /\ Suspended
  /\ prod \in {"stream", "fallback_stream"}
  /\ nraw < MaxEvents
  /\ \E ev \in RawEvents :
       /\ Put(extract_health_coach_events(ev))
       /\ state_text' = state_text \o extract_text(ev)
  /\ nraw' = nraw + 1
  /\ UNCHANGED <<prod, failCause>>
  /\ LegacyProducerFrame

\* send_event(queue, ..., "complete"); return state["text"]
legacy_producer_complete ==
  /\ Suspended
  /\ prod \in {"stream", "fallback_stream"}
  /\ Put(<<Progress("complete", "-")>>)
  /\ prod' = "done"
  /\ UNCHANGED <<state_text, nraw, failCause>>
  /\ LegacyProducerFrame

\* truthiness of response_task.result(): the accumulated text or the apology
FinalResponseTruthy == state_text # <<>> \/ failCause = "fallback"

LegacyLoopFrame ==
  UNCHANGED <<prod, enq, state_text, nraw, failCause, PollOnlyVars>>

\* the task running queue.get() takes the head of the queue and completes
queue_task_get ==
  /\ Suspended
  /\ qtask.st = "pending"
  /\ queue # <<>>
  /\ qtask' = QueueTask("done", Head(queue))
  /\ queue' = Tail(queue)
  /\ UNCHANGED <<pc, obs, ready, waiting, response_task>>
  /\ LegacyLoopFrame

\* the tasks of `waiting` that are done
DoneTasks ==
  { t \in waiting : \/ t = "response" /\ prod = "done"
                    \/ t = "queue" /\ qtask.st = "done" }

\* the orders in which a set can be iterated
Orderings(S) ==
  { o \in [1..Cardinality(S) -> S] : \A i, j \in 1..Cardinality(S) : o[i] = o[j] => i = j }

\* ready_tasks, waiting = await asyncio.wait(waiting, FIRST_COMPLETED);
\* ready_tasks is a set, iterated in either order
wait_return ==
  /\ pc = "wait"
  /\ DoneTasks # {}
  /\ \E o \in Orderings(DoneTasks) : ready' = o
  /\ waiting' = waiting \ DoneTasks
  /\ pc' = "proc"
  /\ UNCHANGED <<queue, obs, response_task, qtask>>
  /\ LegacyLoopFrame

\* ready_task == response_task, final_response and not queue.empty(): drain
proc_response_drain ==
  /\ pc = "proc"
  /\ ready # <<>>
  /\ Head(ready) = "response"
  /\ FinalResponseTruthy /\ queue # <<>>
  /\ pc' = "drain"
  /\ UNCHANGED <<queue, obs, ready, waiting, response_task, qtask>>
  /\ LegacyLoopFrame

\* ready_task == response_task, nothing to drain: response_task = None
proc_response_skip ==
  /\ pc = "proc"
  /\ ready # <<>>
  /\ Head(ready) = "response"
  /\ ~(FinalResponseTruthy /\ queue # <<>>)
  /\ response_task' = FALSE
  /\ ready' = Tail(ready)
  /\ UNCHANGED <<pc, queue, obs, waiting, qtask>>
  /\ LegacyLoopFrame

\* event = queue.get_nowait(); yield event
legacy_drain_get ==
  /\ pc = "drain"
  /\ queue # <<>>
  /\ obs' = Append(obs, Head(queue))
  /\ queue' = Tail(queue)
  /\ pc' = "yield_drain"
  /\ UNCHANGED <<ready, waiting, response_task, qtask>>
  /\ LegacyLoopFrame

legacy_drain_resume ==
  /\ pc = "yield_drain"
  /\ pc' = "drain"
  /\ UNCHANGED <<queue, obs, ready, waiting, response_task, qtask>>
  /\ LegacyLoopFrame

\* queue.empty(): the drain loop ends, response_task = None
legacy_drain_end ==
  /\ pc = "drain"
  /\ queue = <<>>
  /\ response_task' = FALSE
  /\ ready' = Tail(ready)
  /\ pc' = "proc"
  /\ UNCHANGED <<queue, obs, waiting, qtask>>
  /\ LegacyLoopFrame

\* ready_task == queue_task: event = ready_task.result(); yield event
proc_queue_yield ==
  /\ pc = "proc"
  /\ ready # <<>>
  /\ Head(ready) = "queue"
  /\ obs' = Append(obs, qtask.item)
  /\ pc' = "yield_queue"
  /\ UNCHANGED <<queue, ready, waiting, response_task, qtask>>
  /\ LegacyLoopFrame

\* resumed: queue_task = asyncio.create_task(queue.get()); waiting.add(queue_task)
queue_yield_resume ==
  /\ pc = "yield_queue"
  /\ qtask' = QueueTask("pending", NoItem)
  /\ waiting' = waiting \cup {"queue"}
  /\ ready' = Tail(ready)
  /\ pc' = "proc"
  /\ UNCHANGED <<queue, obs, response_task>>
  /\ LegacyLoopFrame

\* after the for-loop: break when response_task is None and the queue is
\* empty, or when `waiting` is empty; otherwise wait again
loop_check ==
  /\ pc = "proc"
  /\ ready = <<>>
  /\ pc' = IF (~response_task /\ queue = <<>>) \/ waiting = {} THEN "ended" ELSE "wait"
  /\ UNCHANGED <<queue, obs, ready, waiting, response_task, qtask>>
  /\ LegacyLoopFrame

NextLegacy ==
  \/ legacy_producer_start
  \/ legacy_producer_create_agent
  \/ legacy_producer_fallback
  \/ legacy_producer_fallback_fails
  \/ legacy_producer_event
  \/ legacy_producer_complete
  \/ queue_task_get
  \/ wait_return
  \/ proc_response_drain
  \/ proc_response_skip
  \/ legacy_drain_get
  \/ legacy_drain_resume
  \/ legacy_drain_end
  \/ proc_queue_yield
  \/ queue_yield_resume
  \/ loop_check

SpecLegacy == InitLegacy /\ [][NextLegacy]_vars

\* obs is an initial segment of enq
IsPrefix(a, b) == Len(a) <= Len(b) /\ SubSeq(b, 1, Len(a)) = a

\* C5: in the asyncio.wait loop the caller observes the items in exactly the
\* order they were enqueued, and when the stream has ended none is lost and
\* none is duplicated.
C5_LegacyOrder ==
  /\ IsPrefix(obs, enq)
  /\ pc = "ended" => obs = enq

\* ------------------------------------------------------------------------
\* Concurrent requests in one process (agent/healthmate_coach_ai/agent.py).
\* _current_jwt_token, _current_timezone and _current_language are module
\* globals shared by every request; session id, actor id, queue and producer
\* task are locals of one invoke call.  invoke runs without suspension from
\* its first line to its first yield or await, and the producer task runs
\* without suspension from its start to the end of _get_user_info inside
\* _create_health_coach_agent_with_memory (a put on an unbounded queue does
\* not suspend).
\* ------------------------------------------------------------------------
ConcurrentRequest(tok, prompt, tz, lang) ==
  [header |-> Header(TRUE, TRUE, tok), session |-> MinSessionLen, prompt |-> prompt,
   timezone |-> tz, language |-> lang]

\* requests of two users, with differing payloads, and two that are turned away
ConcurrentRequests ==
  { ConcurrentRequest(<<"h", seg, "s">>, pl[1], pl[2], pl[3]) :
      seg \in {SegSubU1, SegSubU2}, pl \in {<<"hi", Absent, Absent>>, <<"yo", "UTC", "en">>} }
  \cup { ConcurrentRequest(<<"h", SegUsernameOnly, "s">>, "hi", "UTC", Absent),
         ConcurrentRequest(<<"h", SegSubU1, "s">>, "", Absent, "en") }

\* one request in flight: its locals and the position of its invoke call
InFlight(req, pc_, actor, prod_, cfg, out) ==
  [req |-> req, pc |-> pc_, actor |-> actor, prod |-> prod_, cfg |-> cfg, out |-> out]

\* no request is being served by the single-request entry point
SingleRequestIdle ==
  /\ request = LegacyRequest
  /\ env = [memory_id |-> TRUE, model_id |-> TRUE]
  /\ pc = "entry"
  /\ prod = "none"
  /\ queue = <<>>
  /\ enq = <<>>
  /\ obs = <<>>
  /\ state_text = <<>>
  /\ nraw = 0
  /\ timeouts = 0
  /\ drained = 0
  /\ checks = <<>>
  /\ failCause = "none"
  /\ agentCfg = NoAgentCfg
  /\ lastTool = NoToolYet
  /\ pending = NoPending
  /\ toolCalls = 0
  /\ calls = NoCalls
  /\ ready = <<>>
  /\ waiting = {}
  /\ response_task = FALSE
  /\ qtask = NoQueueTask

InitConcurrent ==
  /\ SingleRequestIdle
  /\ current_jwt_token = NoToken
  /\ current_timezone = None
  /\ current_language = None
  /\ inflight = <<>>
  /\ fcall = NoCall

\* variables of the single-request specifications
SingleRequestVars ==
  <<request, env, pc, prod, queue, enq, obs, state_text, nraw, timeouts, drained, checks,
    failCause, agentCfg, lastTool, pending, toolCalls, calls, ready, waiting, response_task, qtask, fcall>>

\* the text of the single event a rejected request gets (lines 554-589)
RejectText(req) ==
  IF HeaderMissing(req) THEN E_AUTH_HEADER
  ELSE IF TokenOf(req) = EmptyToken THEN E_JWT_TOKEN
  ELSE IF SessionInvalid(req) THEN E_SESSION
  ELSE IF ~Truthy(get_user_info(TokenOf(req), TimezoneOf(req), LanguageOf(req)).user_id) THEN E_USER_ID
  ELSE GREETING

\* invoke up to its `return`: the request fails a check or has an empty
\* prompt; the globals are written once the session check has passed
concurrent_invoke_reject ==
  /\ Len(inflight) < MaxRequests
  /\ \E req \in ConcurrentRequests :
       LET ui == get_user_info(TokenOf(req), TimezoneOf(req), LanguageOf(req))
       IN /\ ~PassedSession(req) \/ ui.raised \/ ~Truthy(ui.user_id) \/ req.prompt = ""
          /\ inflight' = Append(inflight,
               InFlight(req, IF PassedSession(req) /\ ui.raised THEN "raised" ELSE "ended",
                        None, "none", NoAgentCfg, RejectText(req)))
          /\ IF PassedSession(req)
               THEN /\ current_jwt_token' = TokenOf(req)
                    /\ current_timezone' = TimezoneOf(req)
                    /\ current_language' = LanguageOf(req)
               ELSE UNCHANGED <<current_jwt_token, current_timezone, current_language>>
  /\ UNCHANGED SingleRequestVars

\* invoke up to its first wait_for: globals written, actor_id read back from
\* the token just stored, queue and producer task created
concurrent_invoke_accept ==
  /\ Len(inflight) < MaxRequests
  /\ \E req \in ConcurrentRequests :
       LET ui == get_user_info(TokenOf(req), TimezoneOf(req), LanguageOf(req))
       IN /\ PassedSession(req) /\ ~ui.raised /\ Truthy(ui.user_id) /\ req.prompt # ""
          /\ inflight' = Append(inflight, InFlight(req, "poll", ui.user_id, "new", NoAgentCfg, "-"))
          /\ current_jwt_token' = TokenOf(req)
          /\ current_timezone' = TimezoneOf(req)
          /\ current_language' = LanguageOf(req)
  /\ UNCHANGED SingleRequestVars

\* an actor id read from the module globals when the producer runs
ProducerActor_global(r) == get_user_info(current_jwt_token, current_timezone, current_language).user_id

\* the actor_id argument of invoke_health_coach, handed on to
\* _create_health_coach_agent_with_memory and AgentCoreMemoryConfig
ProducerActor(r) == r.actor

\* the producer task of request i runs: "start" notice, then the agent is
\* built from _get_user_info() (the globals as they are now) and actor_id
concurrent_producer_create ==
  /\ \E i \in 1..Len(inflight) :
       /\ inflight[i].prod = "new"
       /\ inflight' = [inflight EXCEPT ![i].prod = "stream",
                                       ![i].cfg = [timezone |-> PromptUserInfo.timezone,
                                                   language |-> PromptUserInfo.language,
                                                   actor |-> ProducerActor(inflight[i])]]
  /\ UNCHANGED <<current_jwt_token, current_timezone, current_language>>
  /\ UNCHANGED SingleRequestVars

\* the producer task of request i ends, normally or by an exception
concurrent_producer_finish ==
  /\ \E i \in 1..Len(inflight), how \in {"done", "failed"} :
       /\ inflight[i].prod = "stream"
       /\ inflight' = [inflight EXCEPT ![i].prod = how]
  /\ UNCHANGED <<current_jwt_token, current_timezone, current_language>>
  /\ UNCHANGED SingleRequestVars

\* the poll loop of request i has drained its queue: the generator returns
concurrent_invoke_end ==
  /\ \E i \in 1..Len(inflight) :
       /\ inflight[i].pc = "poll"
       /\ inflight[i].prod \in {"done", "failed"}
       /\ inflight' = [inflight EXCEPT ![i].pc = "ended"]
  /\ UNCHANGED <<current_jwt_token, current_timezone, current_language>>
  /\ UNCHANGED SingleRequestVars

NextConcurrent ==
  \/ concurrent_invoke_reject
  \/ concurrent_invoke_accept
  \/ concurrent_producer_create
  \/ concurrent_producer_finish
  \/ concurrent_invoke_end

SpecConcurrent == InitConcurrent /\ [][NextConcurrent]_vars

\* the subject the credential of a request names
CredentialSubject(req) == decode_jwt_payload(TokenOf(req)).sub

\* C11: the actor id handed to the producer task and to the memory store is
\* the subject of the request's own credential, so two requests carrying the
\* same credential get the same actor id whatever their payloads are and
\* whatever other requests run in between or concurrently.
C11_SubjectFromCredential ==
  \A i \in 1..Len(inflight) :
    LET r == inflight[i]
    IN /\ r.prod # "none" => r.actor = CredentialSubject(r.req)
       /\ r.cfg # NoAgentCfg => r.cfg.actor = CredentialSubject(r.req)
       /\ \A j \in 1..Len(inflight) :
            (TokenOf(inflight[j].req) = TokenOf(r.req) /\ r.cfg # NoAgentCfg
               /\ inflight[j].cfg # NoAgentCfg) => inflight[j].cfg.actor = r.cfg.actor

\* two requests with one credential and different payloads, the second
\* accepted while the producer of the first had not yet built its agent
C11_Witness ==
  /\ Len(inflight) = 2
  /\ TokenOf(inflight[1].req) = TokenOf(inflight[2].req)
  /\ inflight[1].req.prompt # inflight[2].req.prompt
  /\ inflight[1].req.timezone # inflight[2].req.timezone
  /\ inflight[1].cfg # NoAgentCfg
  /\ inflight[2].cfg # NoAgentCfg
  /\ inflight[1].cfg.actor = "u1"
  /\ inflight[2].cfg.actor = "u1"

\* C13: the timezone and language a producer assembles its system prompt
\* from are the ones declared by its own request.
C13_ConfigNotShared ==
  \A i \in 1..Len(inflight) :
    inflight[i].cfg # NoAgentCfg =>
      /\ inflight[i].cfg.timezone = TimezoneOf(inflight[i].req)
      /\ inflight[i].cfg.language = LanguageOf(inflight[i].req)

\* ------------------------------------------------------------------------
\* The helper functions applied on their own: identity extraction (both
\* agents), gateway response classification and the two tools
\* ------------------------------------------------------------------------
\* _decode_jwt_payload of healthmate_coach_ai/agent.py: a segment count # 3
\* raises ValueError inside the try, which the except turns into {}
legacy_decode_jwt_payload(tok) ==
  LET raised == Len(tok) # 3 \/ ~B64JsonLoads(tok[2]).ok
  IN IF raised THEN EmptyClaims ELSE B64JsonLoads(tok[2]).value

\* _get_user_id_from_jwt of healthmate_coach_ai/agent.py with the token in
\* the module global and no other token source: sub if truthy, else
\* username or email or user_id; None when the payload is falsy or when
\* payload.get raises (payload not an object)
get_user_id_from_jwt(jwt) ==
  IF jwt = NoToken \/ jwt = EmptyToken THEN None
  ELSE LET payload == legacy_decode_jwt_payload(jwt)
       IN IF ~payload.isobj THEN None
          ELSE IF Truthy(payload.sub) THEN payload.sub
          ELSE IF Truthy(payload.username) THEN payload.username
          ELSE IF Truthy(payload.email) THEN payload.email
          ELSE IF payload.user_id # Absent THEN payload.user_id
          ELSE None

\* tokens by segment count and by what their middle segment holds
FunctionTokens ==
  { <<"h", seg, "s">> :
      seg \in {SegSubU1, SegUsernameOnly, SegEmptySub, SegJsonList, SegJsonNull, SegNotJson,
               SegUsernameEmail, SegEmailUserId, SegUserIdOnly, SegEmptyObject,
               SegSubAndUsername, SegEmptySubUsername, SegBadBase64, SegBadUtf8, SegEmpty} }
  \cup { EmptyToken, <<"a">>, <<"h", SegSubU1>>, <<SegSubU1, "s">>, <<"h", SegSubU1, "s", "x">>,
         <<"", "", "", "">> }

FunctionStatuses == {200, 201, 204, 302, 400, 401, 403, 404, 418, 499, 500, 502, 503, 599}

\* gateway answers handed to the classification
FunctionResponses ==
  { Response(TRUE, TRUE, st, err, res) :
      st \in FunctionStatuses, err \in BOOLEAN, res \in {NullResult, CallResult("content_text")} }
  \cup { Response(FALSE, TRUE, 200, FALSE, NullResult), Response(TRUE, FALSE, 200, FALSE, NullResult) }

Call(fn, arg) == [fn |-> fn, arg |-> arg, out |-> "-", done |-> FALSE]

\* raw generation events handed to the translation, and the buffer before it
FunctionEvents ==
  RawEvents
  \cup { RawEvent("str", t, Absent) : t \in {"", "b"} }
  \cup { RawEvent("event", t, n) : t \in {"", "b"}, n \in {Absent, "y"} }
  \cup { RawEvent("event", Absent, "unknown") }

TextBuffers == {<<>>, <<"a">>}

\* "認証トークンが見つかりません…": no credential in any source
E_NO_TOKEN == "E_NO_TOKEN"

\* what _get_jwt_token looks at: the module global, the workload access
\* token of the runtime context and the request headers of the context
CredentialSources(global, workload, header) ==
  [global |-> global, workload |-> workload, header |-> header]

Workload(raises, tok) == [raises |-> raises, tok |-> tok]

NoSources == CredentialSources(NoToken, Workload(FALSE, NoToken), NoHeader)

CredentialSourceSet ==
  { CredentialSources(gl, wl, hd) :
      gl \in {NoToken, EmptyToken, <<"h", SegSubU1, "s">>},
      wl \in {Workload(TRUE, NoToken), Workload(FALSE, NoToken), Workload(FALSE, EmptyToken),
              Workload(FALSE, <<"w", SegSubU1, "s">>)},
      hd \in {NoHeader, Header(TRUE, FALSE, <<"h", SegSubU2, "s">>),
              Header(TRUE, TRUE, EmptyToken), Header(TRUE, TRUE, <<"h", SegSubU2, "s">>)} }

\* _get_jwt_token (legacy): first truthy of global, workload token, then the
\* Authorization header with its 'Bearer ' prefix removed
legacy_get_jwt_token(cs) ==
  IF cs.global \notin {NoToken, EmptyToken} THEN cs.global
  ELSE IF ~cs.workload.raises /\ cs.workload.tok \notin {NoToken, EmptyToken} THEN cs.workload.tok
  ELSE IF cs.header.present /\ cs.header.bearer THEN cs.header.tok
  ELSE NoToken

\* a gateway call that posts without looking at the credential
legacy_call_mcp_gateway_nocheck(cs, g) ==
  LET tok == legacy_get_jwt_token(cs)
      Raise(msg, code) ==
        [raised |-> TRUE, msg |-> msg, result |-> NullResult, sent |-> TRUE,
         http_status |-> code, bearer |-> tok]
  IN IF ~g.transport THEN Raise(E_TRANSPORT, 0)
     ELSE IF g.status # 200 THEN Raise(E_GW_HTTP, g.status)
     ELSE IF g.error THEN Raise(E_GW_PROTOCOL, 0)
     ELSE [raised |-> FALSE, msg |-> "", result |-> g.result, sent |-> TRUE, http_status |-> 0,
           bearer |-> tok]

\* _call_mcp_gateway (legacy): the credential of _get_jwt_token as bearer
legacy_call_mcp_gateway(cs, g) ==
  LET tok == legacy_get_jwt_token(cs)
      Raise(msg, sent, code) ==
        [raised |-> TRUE, msg |-> msg, result |-> NullResult, sent |-> sent,
         http_status |-> code, bearer |-> IF sent THEN tok ELSE NoToken]
  IN IF tok \in {NoToken, EmptyToken} THEN Raise(E_NO_TOKEN, FALSE, 0)
     ELSE IF ~g.transport THEN Raise(E_TRANSPORT, TRUE, 0)
     ELSE IF g.status # 200 THEN Raise(E_GW_HTTP, TRUE, g.status)
     ELSE IF g.error THEN Raise(E_GW_PROTOCOL, TRUE, 0)
     ELSE [raised |-> FALSE, msg |-> "", result |-> g.result, sent |-> TRUE, http_status |-> 0,
           bearer |-> tok]

\* health_manager_mcp (legacy); 'calls' holds the bearer of each request sent
legacy_health_manager_mcp(cs, g) ==
  LET r == legacy_call_mcp_gateway(cs, g)
      n == IF r.sent THEN <<r.bearer>> ELSE <<>>
  IN IF r.raised THEN ToolReturn("error_text", r.msg, n, <<>>, 0)
     ELSE IF FalsyResult(r.result) THEN ToolReturn("empty_result_msg", "", n, <<>>, 0)
     ELSE IF ResultTypeError(r.result) THEN ToolReturn("error_text", E_TYPE, n, <<>>, 0)
     ELSE IF r.result.kind = "content_text" THEN ToolReturn("first_text", "", n, <<>>, 0)
     ELSE IF r.result.kind = "content_first_no_text" THEN ToolReturn("str_first_block", "", n, <<>>, 0)
     ELSE IF r.result.kind \in {"content_empty_list", "content_not_list"} THEN ToolReturn("str_content", "", n, <<>>, 0)
     ELSE ToolReturn("str_result", "", n, <<>>, 0)

LegacyGatewayResponses ==
  { Response(TRUE, TRUE, 200, FALSE, CallResult("content_text")),
    Response(TRUE, TRUE, 401, FALSE, NullResult),
    Response(TRUE, FALSE, 200, FALSE, NullResult) }

InitFunctions ==
  /\ SingleRequestIdle
  /\ current_jwt_token = NoToken
  /\ current_timezone = None
  /\ current_language = None
  /\ inflight = <<>>
  /\ \/ fcall \in { Call(fn, t) : fn \in {"decode_jwt_payload", "legacy_decode_jwt_payload",
                                         "get_user_info", "get_user_id_from_jwt"},
                                 t \in FunctionTokens }
     \/ fcall \in { Call("call_mcp_gateway", g) : g \in FunctionResponses }
     \/ fcall \in { Call("health_manager_mcp", g) : g \in FailureResponses \cup OkCallResponses }
     \/ fcall \in { Call("list_health_tools", sc) : sc \in ListScenarios(MaxPages + 1) }
     \/ fcall \in { Call("extract_health_coach_events", [ev |-> ev, buf |-> b]) :
                       ev \in FunctionEvents, b \in TextBuffers }
     \/ fcall \in { Call("legacy_health_manager_mcp", [cs |-> cs, g |-> g]) :
                       cs \in CredentialSourceSet, g \in LegacyGatewayResponses }

\* the function being applied returns `out`
Return(out) ==
  /\ ~fcall.done
  /\ fcall' = [fcall EXCEPT !.out = out, !.done = TRUE]
  /\ UNCHANGED <<current_jwt_token, current_timezone, current_language, inflight>>
  /\ UNCHANGED <<request, env, pc, prod, queue, enq, obs, state_text, nraw, timeouts, drained,
                 checks, failCause, agentCfg, lastTool, pending, toolCalls, calls, ready, waiting,
                 response_task, qtask>>

apply_decode_jwt_payload ==
  /\ fcall.fn = "decode_jwt_payload"
  /\ Return(decode_jwt_payload(fcall.arg))

apply_legacy_decode_jwt_payload ==
  /\ fcall.fn = "legacy_decode_jwt_payload"
  /\ Return(legacy_decode_jwt_payload(fcall.arg))

\* _get_user_info with the token in _current_jwt_token, no timezone/language set
apply_get_user_info ==
  /\ fcall.fn = "get_user_info"
  /\ Return(get_user_info(fcall.arg, None, None))

apply_get_user_id_from_jwt ==
  /\ fcall.fn = "get_user_id_from_jwt"
  /\ Return(get_user_id_from_jwt(fcall.arg))

apply_call_mcp_gateway ==
  /\ fcall.fn = "call_mcp_gateway"
  /\ Return(call_mcp_gateway_with_m2m(fcall.arg))

apply_health_manager_mcp ==
  /\ fcall.fn = "health_manager_mcp"
  /\ Return(health_manager_mcp(fcall.arg))

apply_list_health_tools ==
  /\ fcall.fn = "list_health_tools"
  /\ Return(list_health_tools(fcall.arg))

\* _extract_health_coach_events on a fresh queue: the items it holds
\* afterwards and state["text"] afterwards
apply_extract_health_coach_events ==
  /\ fcall.fn = "extract_health_coach_events"
  /\ Return([items |-> extract_health_coach_events(fcall.arg.ev),
             text |-> fcall.arg.buf \o extract_text(fcall.arg.ev)])

apply_legacy_health_manager_mcp ==
  /\ fcall.fn = "legacy_health_manager_mcp"
  /\ Return(legacy_health_manager_mcp(fcall.arg.cs, fcall.arg.g))

NextFunctions ==
  \/ apply_extract_health_coach_events
  \/ apply_legacy_health_manager_mcp
  \/ apply_decode_jwt_payload
  \/ apply_legacy_decode_jwt_payload
  \/ apply_get_user_info
  \/ apply_get_user_id_from_jwt
  \/ apply_call_mcp_gateway
  \/ apply_health_manager_mcp
  \/ apply_list_health_tools

SpecFunctions == InitFunctions /\ [][NextFunctions]_vars

\* fcall is a finished application of fn
Applied(fn) == fcall.fn = fn /\ fcall.done

\* a gateway whose pages 1..k-1 carry a nextCursor and whose page k carries none
PagedGateway(sc, k) ==
  /\ sc.good = k - 1
  /\ sc.last \in OkLastPages
  /\ sc.last.result.kind = "page"

\* the tools of pages 1..k, in page order
PagedTools(sc, k) == [n \in 1..(k - 1) |-> n] \o sc.last.result.tools

\* the cursor each call has to carry: none, then the nextCursor of the page before
PagedCursors(sc, k) == [n \in 1..k |-> IF n = 1 THEN 0 ELSE PageOf(sc, n - 1).result.cursor]

\* C14: against a gateway with k pages, 1 <= k <= 10, list_health_tools makes
\* exactly k tools/list calls, the first without a cursor and each later one
\* with the nextCursor of the previous response, and returns the tools of all
\* k pages in page order.
C14_Pagination ==
  \A k \in 1..MaxPages :
    (Applied("list_health_tools") /\ PagedGateway(fcall.arg, k)) =>
      /\ ~fcall.out.raised
      /\ Len(fcall.out.calls) = k
      /\ fcall.out.calls = PagedCursors(fcall.arg, k)
      /\ fcall.out.pages = k
      /\ fcall.out.tools = PagedTools(fcall.arg, k)
      /\ fcall.out.kind = IF PagedTools(fcall.arg, k) = <<>> THEN "no_tools_msg" ELSE "tool_list"

C14_Witness ==
  /\ Applied("list_health_tools")
  /\ PagedGateway(fcall.arg, MaxPages)
  /\ Len(fcall.out.calls) = MaxPages
  /\ Len(fcall.out.tools) = MaxPages
  /\ fcall.out.calls[MaxPages] = MaxPages

\* C15: against a gateway that carries a nextCursor on every page,
\* list_health_tools stops after exactly 10 calls and returns the tools of
\* those 10 pages as a normal tool list, without raising.
C15_PaginationRunaway ==
  (Applied("list_health_tools") /\ fcall.arg.good >= MaxPages) =>
    /\ ~fcall.out.raised
    /\ fcall.out.kind = "tool_list"
    /\ Len(fcall.out.calls) = MaxPages
    /\ fcall.out.pages = MaxPages
    /\ fcall.out.tools = [n \in 1..MaxPages |-> n]

C15_Witness ==
  /\ Applied("list_health_tools")
  /\ fcall.arg.good = MaxPages + 1
  /\ fcall.out.kind = "tool_list"
  /\ Len(fcall.out.calls) = MaxPages
  /\ Len(fcall.out.tools) = MaxPages

\* C16: every gateway response has exactly one outcome: 401, 403, 404,
\* >= 500, any other status # 200 (carrying the status) and 200 with an error
\* field each raise their own error, whose six markers are pairwise
\* distinct; a result is returned for status 200 without error field and
\* for nothing else.
C16_ResponseClassification ==
  (Applied("call_mcp_gateway") /\ fcall.arg.token /\ fcall.arg.transport) =>
    LET g == fcall.arg
        r == fcall.out
    IN /\ g.status = 401 => (r.raised /\ r.msg = E_GW_AUTH)
       /\ g.status = 403 => (r.raised /\ r.msg = E_GW_AUTHZ)
       /\ g.status = 404 => (r.raised /\ r.msg = E_GW_NOT_FOUND)
       /\ g.status >= 500 => (r.raised /\ r.msg = E_GW_SERVER)
       /\ (g.status < 500 /\ g.status \notin {200, 401, 403, 404}) =>
            (r.raised /\ r.msg = E_GW_HTTP /\ r.http_status = g.status)
       /\ (g.status = 200 /\ g.error) => (r.raised /\ r.msg = E_GW_PROTOCOL)
       /\ (g.status = 200 /\ ~g.error) => (~r.raised /\ r.result = g.result)
       /\ ~r.raised => (g.status = 200 /\ ~g.error)
       /\ Cardinality({E_GW_AUTH, E_GW_AUTHZ, E_GW_NOT_FOUND, E_GW_SERVER, E_GW_HTTP,
                       E_GW_PROTOCOL}) = 6

C16_Witness ==
  /\ Applied("call_mcp_gateway")
  /\ fcall.arg.status = 503
  /\ fcall.arg.error
  /\ fcall.out.raised
  /\ fcall.out.msg = E_GW_SERVER

\* C17: health_manager_mcp never raises and returns, for a gateway result:
\* the fixed empty-result message when it is empty, the string itself when
\* it is a plain string, the first textual content block when it carries a
\* content list, and a stringified fallback in every other case.
C17_ResultNormalization ==
  (Applied("health_manager_mcp") /\ fcall.arg \in OkCallResponses) =>
    LET k == fcall.arg.result.kind
        r == fcall.out
    IN /\ ~r.raised
       /\ k \in {"null", "empty_dict"} => r.kind = "empty_result_msg"
       /\ k \in {"plain_str", "str_with_content"} => r.kind = "str_result"
       /\ k = "content_text" => r.kind = "first_text"
       /\ k = "content_first_no_text" => r.kind = "str_first_block"
       /\ k \in {"content_empty_list", "content_not_list"} => r.kind = "str_content"
       /\ k \in {"no_content", "number"} => r.kind = "str_result"

\* C19: decoding never raises: a token whose segment count is not 3, or
\* whose middle segment fails base64url decoding, UTF-8 decoding or JSON
\* parsing, gives the empty mapping, in both agents.
C19_DecodeNeverRaises ==
  (Applied("decode_jwt_payload") \/ Applied("legacy_decode_jwt_payload")) =>
    /\ Len(fcall.arg) # 3 => fcall.out = EmptyClaims
    /\ (Len(fcall.arg) = 3 /\ ~B64JsonLoads(fcall.arg[2]).ok) => fcall.out = EmptyClaims

C19_Witness ==
  /\ Applied("decode_jwt_payload")
  /\ Len(fcall.arg) = 2
  /\ fcall.arg[2] = SegSubU1
  /\ fcall.out = EmptyClaims

\* the subject the fallback chain resolves from a claim set
ChainSubject(p) ==
  IF Truthy(p.sub) THEN p.sub
  ELSE IF Truthy(p.username) THEN p.username
  ELSE IF Truthy(p.email) THEN p.email
  ELSE IF Truthy(p.user_id) THEN p.user_id
  ELSE None

\* an empty or missing identifier counts as none
Resolved(v) == IF Truthy(v) THEN v ELSE None

\* C20: in both agents the subject resolved from a claim set is sub, else
\* the first of username, email, user_id that is there, and none only when
\* all four are missing.
C20_FallbackChain ==
  /\ (Applied("get_user_id_from_jwt") /\ decode_jwt_payload(fcall.arg).isobj) =>
       Resolved(fcall.out) = ChainSubject(decode_jwt_payload(fcall.arg))
  /\ (Applied("get_user_info") /\ decode_jwt_payload(fcall.arg).isobj) =>
       Resolved(fcall.out.user_id) = ChainSubject(decode_jwt_payload(fcall.arg))

\* C21: with no credential in any source (module global unset, no workload
\* access token, no Authorization header) the legacy health_manager_mcp
\* returns the missing-credential error text; it does not raise and sends
\* nothing to the gateway.
C21_NoCredentialIsText ==
  (/\ Applied("legacy_health_manager_mcp")
   /\ fcall.arg.cs.global = NoToken
   /\ fcall.arg.cs.workload.tok = NoToken
   /\ ~fcall.arg.cs.header.present) =>
    /\ ~fcall.out.raised
    /\ fcall.out.kind = "error_text"
    /\ fcall.out.detail = E_NO_TOKEN
    /\ fcall.out.calls = <<>>

\* no credential anywhere, in front of a gateway that would answer
C21_Witness ==
  /\ Applied("legacy_health_manager_mcp")
  /\ fcall.arg.cs = NoSources
  /\ fcall.arg.g.status = 200
  /\ fcall.arg.g.transport
  /\ fcall.out.detail = E_NO_TOKEN
  /\ fcall.out.calls = <<>>

\* C24: a plain-text chunk puts exactly one text delta with that text on the
\* queue; a structured event that starts a tool invocation puts two items
\* on it, a tool-use-started item and a progress notice, both naming the
\* tool; a structured event with a text delta puts exactly one text delta on
\* it and appends the text to the buffer; every other raw event puts
\* nothing on it and leaves the buffer as it was.
C24_EventTranslation ==
  Applied("extract_health_coach_events") =>
    LET ev == fcall.arg.ev
        out == fcall.out
    IN /\ ev.shape = "str" => out.items = <<TextDelta(ev.text)>>
       /\ (ev.shape = "event" /\ ev.tool # Absent /\ ev.text = Absent) =>
            /\ Len(out.items) = 2
            /\ \A i \in 1..Len(out.items) : out.items[i].tool = ev.tool
            /\ \E i \in 1..Len(out.items) : IsProgress(out.items[i], "tool_use")
            /\ out.text = fcall.arg.buf
       /\ (ev.shape = "event" /\ ev.tool = Absent /\ ev.text # Absent) =>
            /\ out.items = <<TextDelta(ev.text)>>
            /\ out.text = fcall.arg.buf \o <<ev.text>>
       /\ (ev.shape = "other" \/ (ev.shape = "event" /\ ev.tool = Absent /\ ev.text = Absent)) =>
            /\ out.items = <<>>
            /\ out.text = fcall.arg.buf

\* C30: when a tools/list call fails on a page n > 1, list_health_tools
\* returns an error text and none of the tools of pages 1..n-1; tools are
\* returned only when the pagination stops by an empty response, a missing
\* nextCursor or the cap of 10 pages.
C30_NoPartialOnFailure ==
  Applied("list_health_tools") =>
    LET sc == fcall.arg
        out == fcall.out
    IN /\ (sc.good >= 1 /\ sc.good < MaxPages /\ sc.last \in FailureResponses) =>
            /\ ~out.raised
            /\ out.kind = "error_text"
            /\ out.tools = <<>>
            /\ out.detail = call_mcp_gateway_with_m2m(sc.last).msg
       /\ out.tools # <<>> =>
            /\ out.kind = "tool_list"
            /\ \/ sc.good >= MaxPages
               \/ sc.last \in OkLastPages
            /\ out.tools = [n \in 1..Len(out.tools) |-> IF n <= sc.good THEN n ELSE 0]

\* pages 1 and 2 delivered, page 3 fails
C30_Witness ==
  /\ Applied("list_health_tools")
  /\ fcall.arg.good = 2
  /\ fcall.arg.last \in FailureResponses
  /\ fcall.arg.last.status = 503
  /\ fcall.out.kind = "error_text"
  /\ fcall.out.tools = <<>>
  /\ Len(fcall.out.calls) = 3

\* ------------------------------------------------------------------------
\* The legacy entry points under concurrent requests: invoke(payload) of
\* healthmate_coach_ai/agent.py and of health_coach_ai/agent.py stash the
\* credential of the payload in the module global _current_jwt_token, and
\* every gateway call of a producer task reads it back with _get_jwt_token.
\* ------------------------------------------------------------------------

\* payload.sessionState.sessionAttributes of a legacy request
LegacyPayload(tok, session, prompt, tz) ==
  [jwt_token |-> tok, session |-> session, prompt |-> prompt, timezone |-> tz]

LegacyPayloads ==
  { LegacyPayload(<<"h", SegSubU1, "s">>, MinSessionLen, "hi", Absent),
    LegacyPayload(<<"h", SegSubU2, "s">>, MinSessionLen, "hi", "UTC"),
    LegacyPayload(NoToken, MinSessionLen, "hi", Absent),
    LegacyPayload(<<"h", SegSubU1, "s">>, MinSessionLen - 1, "hi", Absent),
    LegacyPayload(<<"h", SegSubU1, "s">>, MinSessionLen, "", Absent),
    LegacyPayload(<<"h", SegEmptyObject, "s">>, MinSessionLen, "hi", Absent) }

\* one legacy request in flight; 'sent' holds the bearer of every request
\* its producer task has sent to the gateway
LegacyInFlight(req, pc_, actor, prod_, out) ==
  [req |-> req, pc |-> pc_, actor |-> actor, prod |-> prod_, sent |-> <<>>, out |-> out]

E_LEGACY_JWT == "E_LEGACY_JWT"
E_LEGACY_SESSION == "E_LEGACY_SESSION"
E_LEGACY_USER_ID == "E_LEGACY_USER_ID"

\* the runtime context offers no credential of its own
ContextSources(global) == CredentialSources(global, Workload(FALSE, NoToken), NoHeader)

\* the first legacy check a payload fails (healthmate_coach_ai, lines 757-829)
LegacyRejectText(req) ==
  IF req.jwt_token \in {NoToken, EmptyToken} THEN E_LEGACY_JWT
  ELSE IF req.session < MinSessionLen THEN E_LEGACY_SESSION
  ELSE IF ~Truthy(get_user_id_from_jwt(legacy_get_jwt_token(ContextSources(req.jwt_token))))
    THEN E_LEGACY_USER_ID
  ELSE IF req.prompt = "" THEN GREETING
  ELSE "-"

\* timezone of the payload with the default of healthmate_coach_ai
LegacyTimezoneOf(req) == IF req.timezone = Absent THEN "Asia/Tokyo" ELSE req.timezone

\* healthmate_coach_ai invoke up to its `return`: a check fails or the prompt
\* is empty; the globals are written once token and session have passed
legacy_invoke_reject ==
  /\ Len(inflight) < MaxRequests
  /\ \E req \in LegacyPayloads :
       /\ LegacyRejectText(req) # "-"
       /\ inflight' = Append(inflight, LegacyInFlight(req, "ended", None, "none", LegacyRejectText(req)))
       /\ IF LegacyRejectText(req) \in {E_LEGACY_JWT, E_LEGACY_SESSION}
            THEN UNCHANGED <<current_jwt_token, current_timezone, current_language>>
            ELSE /\ current_jwt_token' = req.jwt_token
                 /\ current_timezone' = LegacyTimezoneOf(req)
                 /\ current_language' = "ja"
  /\ UNCHANGED SingleRequestVars

\* healthmate_coach_ai invoke up to its first asyncio.wait: globals written,
\* actor id read back through _get_user_id_from_jwt, producer task created
legacy_invoke_accept ==
  /\ Len(inflight) < MaxRequests
  /\ \E req \in LegacyPayloads :
       /\ LegacyRejectText(req) = "-"
       /\ inflight' = Append(inflight,
            LegacyInFlight(req, "wait",
                           get_user_id_from_jwt(legacy_get_jwt_token(ContextSources(req.jwt_token))),
                           "stream", "-"))
       /\ current_jwt_token' = req.jwt_token
       /\ current_timezone' = LegacyTimezoneOf(req)
       /\ current_language' = "ja"
  /\ UNCHANGED SingleRequestVars

\* a producer that hands the credential of its own request to the gateway call
ToolCallSources_own(r) == ContextSources(r.req.jwt_token)

\* the sources _get_jwt_token reads when a tool of request r calls the gateway
ToolCallSources(r) == ContextSources(current_jwt_token)

\* the producer task of request i runs a tool: health_manager_mcp calls
\* _call_mcp_gateway, which takes its bearer from _get_jwt_token()
legacy_producer_tool_call ==
  /\ \E i \in 1..Len(inflight), g \in LegacyGatewayResponses :
       LET r == legacy_call_mcp_gateway(ToolCallSources(inflight[i]), g)
       IN /\ inflight[i].prod = "stream"
          /\ Len(inflight[i].sent) < MaxToolCalls
          /\ inflight[i].out = "-"
          /\ inflight' = [inflight EXCEPT
               ![i].sent = IF r.sent THEN Append(@, r.bearer) ELSE @,
               ![i].out = IF r.sent THEN @ ELSE r.msg]
  /\ UNCHANGED <<current_jwt_token, current_timezone, current_language>>
  /\ UNCHANGED SingleRequestVars

\* the producer task of request i ends: with its text ("done"), or with the
\* text of the fallback agent or the apology after an exception ("failed")
legacy_producer_finish ==
  /\ \E i \in 1..Len(inflight), how \in {"done", "failed"} :
       /\ inflight[i].prod = "stream"
       /\ inflight' = [inflight EXCEPT ![i].prod = how]
  /\ UNCHANGED <<current_jwt_token, current_timezone, current_language>>
  /\ UNCHANGED SingleRequestVars

\* the asyncio.wait loop of request i sees its producer task done
legacy_invoke_end ==
  /\ \E i \in 1..Len(inflight) :
       /\ inflight[i].pc = "wait"
       /\ inflight[i].prod \in {"done", "failed"}
       /\ inflight' = [inflight EXCEPT ![i].pc = "ended"]
  /\ UNCHANGED <<current_jwt_token, current_timezone, current_language>>
  /\ UNCHANGED SingleRequestVars

NextLegacyConcurrent ==
  \/ legacy_invoke_reject
  \/ legacy_invoke_accept
  \/ legacy_producer_tool_call
  \/ legacy_producer_finish
  \/ legacy_invoke_end

SpecLegacyConcurrent == InitConcurrent /\ [][NextLegacyConcurrent]_vars

\* C27: a gateway call of a producer task carries the credential that is in
\* the module-level stash when the call is made, whichever request put it
\* there; with two requests in flight this is the credential of the second
\* request in a call made for the first.
C27_StashedCredentialUsed ==
  [][\A i \in 1..Len(inflight) :
       Len(inflight'[i].sent) > Len(inflight[i].sent) =>
         inflight'[i].sent[Len(inflight'[i].sent)] = current_jwt_token]_vars

\* the producer of the first request has called the gateway with the
\* credential of the second request
C27_Witness ==
  /\ Len(inflight) = 2
  /\ inflight[1].actor = "u1"
  /\ inflight[2].actor = "u2"
  /\ inflight[1].pc = "wait"
  /\ inflight[2].pc = "wait"
  /\ inflight[1].sent = <<inflight[2].req.jwt_token>>
  /\ inflight[1].req.jwt_token # inflight[2].req.jwt_token

\* health_coach_ai invoke (lines 748-800): the token global is written only
\* when the payload carries a token, timezone and language always; the
\* actor id is read back through _get_user_id_from_jwt, "anonymous_user"
\* when there is none; an empty prompt is greeted, any other starts a producer
older_invoke ==
  /\ Len(inflight) < MaxRequests
  /\ \E req \in LegacyPayloads :
       LET stash == IF req.jwt_token \in {NoToken, EmptyToken} THEN current_jwt_token ELSE req.jwt_token
           user_id == get_user_id_from_jwt(legacy_get_jwt_token(ContextSources(stash)))
           actor_id == IF Truthy(user_id) THEN user_id ELSE "anonymous_user"
       IN /\ current_jwt_token' = stash
          /\ current_timezone' = IF req.timezone = Absent THEN None ELSE req.timezone
          /\ current_language' = None
          /\ inflight' = Append(inflight,
               IF req.prompt = "" THEN LegacyInFlight(req, "ended", actor_id, "none", GREETING)
               ELSE LegacyInFlight(req, "wait", actor_id, "stream", "-"))
  /\ UNCHANGED SingleRequestVars

NextOlderConcurrent ==
  \/ older_invoke
  \/ legacy_producer_tool_call
  \/ legacy_producer_finish
  \/ legacy_invoke_end

SpecOlderConcurrent == InitConcurrent /\ [][NextOlderConcurrent]_vars

\* C28: a request without a credential is served as "anonymous_user" and
\* its producer sends no credential of an earlier request to the gateway,
\* whatever requests came before it.
C28_AnonymousIsolated ==
  \A i \in 1..Len(inflight) :
    inflight[i].req.jwt_token = NoToken =>
      /\ inflight[i].actor = "anonymous_user"
      /\ inflight[i].sent = <<>>

====
